---------------------------- MODULE Spec2Model ----------------------------
(***************************************************************************)
(* Remote Commander: the Next.js client (src/src/components/               *)
(* app-launcher.tsx) and its server actions (src/unnamed/part_001).        *)
(*                                                                         *)
(* Strings are sequences of units.  A unit is a run of characters that the *)
(* code never looks inside: a word, a number, or one punctuation mark.     *)
(* includes / startsWith / toLowerCase / concatenation act on these        *)
(* sequences the way the JavaScript methods act on characters.             *)
(***************************************************************************)
EXTENDS Integers, Sequences, FiniteSets, TLC

VARIABLES
    \* ---- server actions (part_001): one call at a time
    pc,             \* "idle" | "awaitFetch" | "awaitAI" | "done"
    call,           \* the running call: [fn, appName, url, query, apps]
    fetchLog,       \* the fetch() invocations of the running call, in order
    aiCalls,        \* the filterApps() invocations of the running call
    resp,           \* what fetch() or filterApps() settled with
    ret,            \* the value the call resolved to
    \* ---- the launcher service (spec.md 4.1)
    serviceLog,     \* the POSTs it handled: [app, spawns, reply], in order
    \* ---- AppLauncher component state (app-launcher.tsx 162-171)
    localStorage,   \* browser storage: a function from the keys present
    localServerUrl,
    tempServerUrl,
    appsByGroup,    \* sequence of [group, apps], in key order
    isLoading,
    searchQuery,
    pinnedApps,
    isSettingsOpen,
    isQRScannerOpen,
    toast,          \* title of the last toast shown, "" when none yet
    mounted,        \* the component's mount effects have run
    inflight,       \* the fetchAndSetApps calls awaiting getAppsFromPC
    \* ---- AppCard component state (app-launcher.tsx 50-70, 119-136)
    cards,          \* per mounted card: [pending, status]
    launches        \* the form actions awaiting launchApp: [card, live]

actionVars == <<pc, call, fetchLog, aiCalls, resp, ret, serviceLog>>
connVars   == <<localStorage, localServerUrl, tempServerUrl, appsByGroup,
                isLoading, isSettingsOpen, isQRScannerOpen, toast, mounted, inflight>>
viewVars   == <<searchQuery, pinnedApps>>
cardVars   == <<cards, launches>>
vars       == <<actionVars, connVars, viewVars, cardVars>>

----------------------------------------------------------------------------
(* Strings                                                                 *)

\* String.prototype.toLowerCase on one unit.
LowerUnit(u) ==
    CASE u = "A"      -> "a"
      [] u = "B"      -> "b"
      [] u = "Ch"     -> "ch"
      [] u = "Code"   -> "code"
      [] u = "HTTP"   -> "http"
      [] OTHER        -> u

\* String.prototype.toLowerCase
toLowerCase(s) == [i \in 1..Len(s) |-> LowerUnit(s[i])]

\* String.prototype.includes: t occurs in s as a contiguous run.
includes(s, t) ==
    \E i \in 1..(Len(s) - Len(t) + 1) : SubSeq(s, i, i + Len(t) - 1) = t

\* String.prototype.startsWith
startsWith(s, t) == Len(t) <= Len(s) /\ SubSeq(s, 1, Len(t)) = t

\* Index of the first occurrence of unit u in s, 0 when there is none.
FirstIndex(s, u) ==
    IF \E i \in 1..Len(s) : s[i] = u
    THEN CHOOSE i \in 1..Len(s) : s[i] = u /\ \A j \in 1..(i - 1) : s[j] # u
    ELSE 0

\* s.replace(/\/$/, '')
stripTrailingSlash(s) ==
    IF Len(s) > 0 /\ s[Len(s)] = "/" THEN SubSeq(s, 1, Len(s) - 1) ELSE s

----------------------------------------------------------------------------
(* The URL class (WHATWG URL parser) on unit sequences: what               *)
(* z.string().url(), new URL(...) and fetch(...) decide with.              *)

AlphaUnits == {"http", "https", "HTTP", "pc", "apps", "mailto"}
DigitUnits == {"80", "443", "8000", "99999"}
IsAlnum(u) == u \in AlphaUnits \cup DigitUnits

\* Decimal value and digit count of a number unit.
UnitValue(u) ==
    CASE u = "80" -> 80 [] u = "443" -> 443 [] u = "8000" -> 8000
      [] u = "99999" -> 99999 [] OTHER -> 0
UnitDigits(u) ==
    CASE u = "80" -> 2 [] u = "443" -> 3 [] u = "8000" -> 4
      [] u = "99999" -> 5 [] OTHER -> 0

RECURSIVE Pow10(_)
Pow10(n) == IF n = 0 THEN 1 ELSE 10 * Pow10(n - 1)

\* The number a run of digit units spells.
RECURSIVE PortValue(_)
PortValue(p) ==
    IF p = <<>> THEN 0
    ELSE PortValue(SubSeq(p, 1, Len(p) - 1)) * Pow10(UnitDigits(p[Len(p)]))
         + UnitValue(p[Len(p)])

\* Leading and trailing spaces are removed before parsing.
RECURSIVE TrimSpaces(_)
TrimSpaces(s) ==
    IF s = <<>> THEN s
    ELSE IF Head(s) = " " THEN TrimSpaces(Tail(s))
    ELSE IF s[Len(s)] = " " THEN TrimSpaces(SubSeq(s, 1, Len(s) - 1))
    ELSE s

RECURSIVE DropSlashes(_)
DropSlashes(s) ==
    IF s # <<>> /\ Head(s) = "/" THEN DropSlashes(Tail(s)) ELSE s

\* The part of s before the first unit u (all of s when there is none).
Before(s, u) ==
    IF FirstIndex(s, u) = 0 THEN s ELSE SubSeq(s, 1, FirstIndex(s, u) - 1)
\* The part of s from the first unit u on (empty when there is none).
From(s, u) ==
    IF FirstIndex(s, u) = 0 THEN <<>> ELSE SubSeq(s, FirstIndex(s, u), Len(s))

\* Default port of a special scheme, 0 for any other scheme.
DefaultPort(scheme) ==
    CASE scheme = <<"http">>  -> 80
      [] scheme = <<"https">> -> 443
      [] OTHER                -> 0
IsSpecial(scheme) == scheme \in {<<"http">>, <<"https">>}

InvalidURL ==
    [ok |-> FALSE, scheme |-> <<>>, hasHost |-> FALSE, host |-> <<>>,
     port |-> <<>>, path |-> <<>>]

\* A space in a path is percent-encoded.
EncodePath(p) == [i \in 1..Len(p) |-> IF p[i] = " " THEN "%20" ELSE p[i]]

\* host[:port] of an authority; a special scheme needs a non-empty host.
ParseAuthority(scheme, auth, pathRest) ==
    LET host     == Before(auth, ":")
        portPart == From(auth, ":")
        portRaw  == IF portPart = <<>> THEN <<>> ELSE Tail(portPart)
        hostOk   == /\ \A i \in 1..Len(host) : IsAlnum(host[i])
                    /\ (IsSpecial(scheme) => host # <<>>)
                    /\ (host = <<>> => portPart = <<>>)
        portOk   == /\ \A i \in 1..Len(portRaw) : portRaw[i] \in DigitUnits
                    /\ PortValue(portRaw) <= 65535
    IN  IF hostOk /\ portOk
        THEN [ok |-> TRUE, scheme |-> scheme, hasHost |-> TRUE, host |-> host,
              port |-> IF portRaw # <<>> /\ PortValue(portRaw) = DefaultPort(scheme)
                       THEN <<>> ELSE portRaw,
              path |-> IF pathRest = <<>> /\ IsSpecial(scheme)
                       THEN <<"/">> ELSE EncodePath(pathRest)]
        ELSE InvalidURL

\* new URL(s): the parsed record, or InvalidURL where the constructor throws.
URLParse(input) ==
    LET s      == TrimSpaces(input)
        c      == FirstIndex(s, ":")
        scheme == toLowerCase(SubSeq(s, 1, c - 1))
        rest   == SubSeq(s, c + 1, Len(s))
    IN  IF ~(/\ c > 1
             /\ s[1] \in AlphaUnits
             /\ \A k \in 2..(c - 1) : IsAlnum(s[k]))
        THEN InvalidURL                      \* relative URL without a base
        ELSE IF IsSpecial(scheme)
        THEN LET r == DropSlashes(rest)
             IN  ParseAuthority(scheme, Before(r, "/"), From(r, "/"))
        ELSE IF startsWith(rest, <<"/", "/">>)
        THEN LET r == SubSeq(rest, 3, Len(rest))
             IN  ParseAuthority(scheme, Before(r, "/"), From(r, "/"))
        ELSE [ok |-> TRUE, scheme |-> scheme, hasHost |-> FALSE, host |-> <<>>,
              port |-> <<>>, path |-> rest]

\* The port getter: "" for no port or the scheme's default port.
URLPort(u) == u.port

\* The port setter: ignored when the URL cannot have a port; the scheme's
\* default port is stored as no port.
URLSetPort(u, p) ==
    IF ~u.hasHost \/ u.host = <<>> THEN u
    ELSE [u EXCEPT !.port = IF PortValue(p) = DefaultPort(u.scheme) THEN <<>> ELSE p]

\* URL.prototype.toString
URLToString(u) ==
    u.scheme \o <<":">>
    \o (IF u.hasHost
        THEN <<"/", "/">> \o u.host
             \o (IF u.port # <<>> THEN <<":">> \o u.port ELSE <<>>)
        ELSE <<>>)
    \o u.path

----------------------------------------------------------------------------
(* JavaScript values that cross the network: tagged records.               *)

Undefined   == [t |-> "undefined"]
Null        == [t |-> "null"]
Bool(b)     == [t |-> "boolean", v |-> b]
Str(s)      == [t |-> "string", v |-> s]
Arr(a)      == [t |-> "array", v |-> a]
\* A JSON object: a record of the properties the code reads; a property the
\* object does not carry reads as Undefined.
Obj(success, message, apps) ==
    [t |-> "object", success |-> success, message |-> message, apps |-> apps]
\* The flow's output {filteredApps: [...]}.
FlowOutput(list) == [t |-> "object", filteredApps |-> Arr(list)]
\* The grouped app object {group: [{name, icon}]}: its entries in key order.
Groups(entries) == [t |-> "groups", v |-> entries]

\* ToBoolean
Truthy(x) ==
    CASE x.t = "undefined" -> FALSE
      [] x.t = "null"      -> FALSE
      [] x.t = "boolean"   -> x.v
      [] x.t = "string"    -> x.v # <<>>
      [] OTHER             -> TRUE

\* What a settled fetch() is: a rejection, or a Response whose json() either
\* rejects (the body is not JSON) or yields a value.
Throw(msg)          == [kind |-> "throw", message |-> msg, ok |-> FALSE,
                        isJson |-> FALSE, body |-> Undefined]
Response(ok, body)  == [kind |-> "response", message |-> <<>>, ok |-> ok,
                        isJson |-> TRUE, body |-> body]
NotJson(ok)         == [kind |-> "response", message |-> <<>>, ok |-> ok,
                        isJson |-> FALSE, body |-> Undefined]
NoResponse          == [kind |-> "none", message |-> <<>>, ok |-> FALSE,
                        isJson |-> FALSE, body |-> Undefined]

\* Messages of the errors the runtime itself throws.
FetchFailed     == <<"fetch", "failed">>             \* fetch() rejecting
JsonSyntaxError == <<"Unexpected", "token">>         \* response.json()
NullTypeError   == <<"Cannot", "read", "properties", "of", "null">>

----------------------------------------------------------------------------
(* launchApp (part_001 36-76)                                              *)

\* launchAppSchema without the url() check.
launchAppSchemaNameOnly(appName, url) ==
    IF Len(appName) >= 1 THEN <<>> ELSE <<<<"App name cannot be empty.">>>>

\* launchAppSchema.safeParse: the messages of the failed checks, in order.
launchAppSchema(appName, url) ==
    (IF Len(appName) >= 1 THEN <<>> ELSE <<<<"App name cannot be empty.">>>>)
    \o (IF URLParse(url).ok THEN <<>>
        ELSE <<<<"Please set a valid server URL in settings.">>>>)

\* errors.map(e => e.message).join(", ")
RECURSIVE join(_)
join(msgs) ==
    IF msgs = <<>> THEN <<>>
    ELSE IF Len(msgs) = 1 THEN msgs[1]
    ELSE msgs[1] \o <<", ">> \o join(Tail(msgs))

FormState(success, message) ==
    [t |-> "FormState", success |-> success, message |-> message]

InvalidInput(issues) == FormState(Bool(FALSE), <<"Invalid input: ">> \o join(issues))
CouldNotConnect(url) ==
    FormState(Bool(FALSE),
              <<"Could not connect to your PC.", " Is the server running at ">>
              \o url \o <<"?">>)
FailedToLaunch(appName) ==
    FormState(Bool(FALSE),
              <<"Failed to launch ">> \o appName
              \o <<". Check if the local server is running.">>)
LaunchedSuccessfully(appName) == appName \o <<" launched successfully.">>

\* The try block (52-67): [threw, error, value].
Threw(msg)     == [threw |-> TRUE, error |-> msg, value |-> Undefined]
Returned(v)    == [threw |-> FALSE, error |-> <<>>, value |-> v]

launchAppTry(appName, r) ==
    IF r.kind = "throw" THEN Threw(r.message)
    ELSE IF ~r.ok
    THEN LET errorData == IF r.isJson THEN r.body
                          ELSE Obj(Undefined, Str(<<"Failed", "to", "launch", "app.">>),
                                   Undefined)
         IN  IF errorData.t = "null" THEN Threw(NullTypeError)
             ELSE IF errorData.t = "object" /\ Truthy(errorData.message)
             THEN Threw(errorData.message.v)
             ELSE Threw(<<"Network", "response", "was", "not", "ok.">>)
    ELSE IF ~r.isJson THEN Threw(JsonSyntaxError)
    ELSE IF r.body.t = "null" THEN Threw(NullTypeError)
    ELSE LET data == r.body
         IN  Returned(FormState(
                 IF data.t = "object" THEN data.success ELSE Undefined,
                 IF data.t = "object" /\ Truthy(data.message)
                 THEN data.message.v ELSE LaunchedSuccessfully(appName)))

\* A promise of a server action rejecting: the exception reaches the caller.
Uncaught(msg) == [t |-> "uncaught", message |-> msg]

\* The catch block handling connection errors only and throwing the others
\* on.
launchAppCatchRethrowing(appName, url, error) ==
    IF includes(error, <<"fetch">>) \/ includes(error, <<"Failed", "to", "fetch">>)
    THEN CouldNotConnect(url)
    ELSE Uncaught(error)

\* The catch block (68-75).
launchAppCatch(appName, url, error) ==
    IF includes(error, <<"fetch">>) \/ includes(error, <<"Failed", "to", "fetch">>)
    THEN CouldNotConnect(url)
    ELSE FailedToLaunch(appName)

\* What launchApp resolves to once its fetch has settled with r.
launchAppResult(appName, url, r) ==
    LET t == launchAppTry(appName, r)
    IN  IF t.threw THEN launchAppCatch(appName, url, t.error) ELSE t.value

----------------------------------------------------------------------------
(* getAppsFromPC (part_001 115-132), testConnection (142-154),             *)
(* filterAppsAction (86-106)                                               *)

\* `${serverUrl}/apps`
AppsEndpoint(serverUrl) == serverUrl \o <<"/", "apps">>

\* What getAppsFromPC resolves to once its fetch has settled with r.
getAppsResult(r) ==
    IF r.kind = "throw" THEN Arr(<<>>)               \* catch (128-131)
    ELSE IF ~r.ok THEN Arr(<<>>)                     \* 122-125
    ELSE IF ~r.isJson THEN Arr(<<>>)                 \* json() rejects: catch
    ELSE IF r.body.t # "object" THEN Arr(<<>>)       \* null.apps throws: catch
    ELSE IF Truthy(r.body.apps) THEN r.body.apps ELSE Arr(<<>>)

\* testConnection taking any response for success.
testConnectionResultAnyResponse(r) == Bool(r.kind # "throw")

\* What testConnection resolves to once its fetch has settled with r.
testConnectionResult(r) ==
    IF r.kind = "throw" THEN Bool(FALSE) ELSE Bool(r.ok)

\* The fallback filter comparing case-sensitively.
substringFilterCaseSensitive(query, apps) ==
    SelectSeq(apps, LAMBDA app : includes(app, query))

\* apps.filter(app => app.toLowerCase().includes(query.toLowerCase()))
substringFilter(query, apps) ==
    SelectSeq(apps, LAMBDA app : includes(toLowerCase(app), toLowerCase(query)))

\* What filterAppsAction resolves to once filterApps() has settled with r:
\* r.kind = "throw" when the flow rejects, else r.body is the flow's output.
filterAppsResult(query, apps, r) ==
    IF r.kind = "throw" THEN Arr(substringFilter(query, apps))
    ELSE IF r.body.t # "object"                      \* output! was null
    THEN Arr(substringFilter(query, apps))
    ELSE r.body.filteredApps                         \* result.filteredApps

----------------------------------------------------------------------------
(* The inputs and the environment of the server actions                    *)

MaxApps     == 2        \* length of the apps list given to filterAppsAction
MaxQueryLen == 1        \* length of a search query, in units

U_http   == <<"http", ":", "/", "/">>
U_pc8000 == U_http \o <<"pc", ":", "8000">>

\* Server URLs a call may be given: none, well-formed http, well-formed with
\* a scheme fetch cannot speak, and malformed ones.
UrlInputs ==
    { <<>>,
      U_pc8000,
      <<"https", ":", "/", "/", "pc">>,
      <<"mailto", ":", "pc">>,
      <<"pc">>,
      <<"pc", ":", "/", "/", ":", "8000">>,
      U_http,
      U_http \o <<"pc", ":", "99999">>,
      U_http \o <<"pc", " ", "pc">> }

AppNameInputs == { <<>>, <<"Ch", "rome">>, <<"VS", " ", "Code">> }

NameUnits == {"a", "A", "b", "B"}
\* All strings of at most n units.
RECURSIVE StringsUpTo(_)
StringsUpTo(n) ==
    IF n = 0 THEN {<<>>}
    ELSE LET shorter == StringsUpTo(n - 1)
         IN  shorter \cup {Append(x, u) : x \in shorter, u \in NameUnits}

FilterNames == { <<"A", "b">>, <<"a", "B", "a">>, <<"b">> }
RECURSIVE ListsUpTo(_, _)
ListsUpTo(S, n) ==
    IF n = 0 THEN {<<>>}
    ELSE LET shorter == ListsUpTo(S, n - 1)
         IN  shorter \cup {Append(x, e) : x \in shorter, e \in S}

\* Messages a launcher service may put in its payload.
ServerMessages == { <<"Unknown", "app">>, <<"Could", "not", "fetch", "config">> }

NetworkErrors == { FetchFailed, <<"Failed", "to", "fetch">> }

\* Bodies the launcher service may answer a POST with.
PostBodies ==
    {Null} \cup
    { Obj(s, m, Undefined) :
        s \in {Undefined, Bool(TRUE), Bool(FALSE)},
        m \in {Undefined, Str(<<>>)} \cup {Str(x) : x \in ServerMessages} }

\* fetch() speaks http and https only; for any other URL it rejects.
Fetchable(url) ==
    URLParse(url).ok /\ IsSpecial(URLParse(url).scheme)

FetchOutcomes(url, bodies) ==
    {Throw(e) : e \in NetworkErrors} \cup
    (IF Fetchable(url)
     THEN {NotJson(ok) : ok \in BOOLEAN}
          \cup {Response(ok, b) : ok \in BOOLEAN, b \in bodies}
     ELSE {})

\* One configured app as GET /apps lists it; icon <<>> when none is given.
AppEntry(name, icon) == [name |-> name, icon |-> icon]
GroupEntry(group, apps) == [group |-> group, apps |-> apps]

N_Ab   == <<"A", "b">>
N_aBa  == <<"a", "B", "a">>
N_b    == <<"b">>
N_Code == <<"B", "Code">>

\* Configurations of the launcher service (README 47-83: groups of apps
\* under labels the user chooses).
ServerConfigs ==
    { <<GroupEntry(<<"Work">>, <<AppEntry(N_b, <<>>), AppEntry(N_Ab, <<"mic">>)>>),
        GroupEntry(<<"Fun">>,  <<AppEntry(N_aBa, <<>>)>>)>>,
      <<GroupEntry(<<"Pinned">>, <<AppEntry(N_Code, <<>>), AppEntry(N_b, <<>>)>>)>> }

\* Bodies the launcher service may answer GET /apps with.
GetBodies ==
    {Null} \cup
    { Obj(Undefined, Undefined, a) :
        a \in {Undefined, Arr(<<>>), Arr(<<Str(N_b)>>), Groups(<<>>)}
              \cup {Groups(c) : c \in ServerConfigs} }

\* What filterApps() may settle with: a rejection, a null output, or any list
\* of names.
AIOutcomes(apps) ==
    {Throw(<<"AI", "error">>), Response(TRUE, Null)}
    \cup {Response(TRUE, FlowOutput(l)) :
            l \in {<<>>, apps, <<N_Code>>} \cup {<<apps[i]>> : i \in 1..Len(apps)}}

----------------------------------------------------------------------------
(* The server actions as calls: a call starts, awaits fetch() or the AI    *)
(* flow, and resolves.                                                     *)

NoCall   == [fn |-> "none", appName |-> <<>>, url |-> <<>>, query |-> <<>>,
             apps |-> <<>>]
NoReturn == [t |-> "none"]
Request(method, url) == [method |-> method, url |-> url]

ActionsInit ==
    /\ pc = "idle" /\ call = NoCall /\ fetchLog = <<>> /\ aiCalls = 0
    /\ resp = NoResponse /\ ret = NoReturn
    /\ serviceLog = <<>>

\* launchApp up to its await (40-58).
CallLaunchApp ==
    /\ pc = "idle"
    /\ \E appName \in AppNameInputs, url \in UrlInputs :
          /\ call' = [NoCall EXCEPT !.fn = "launchApp", !.appName = appName, !.url = url]
          /\ LET issues == launchAppSchema(appName, url)
             IN  IF issues # <<>>
                 THEN /\ ret' = InvalidInput(issues)
                      /\ pc' = "done"
                      /\ UNCHANGED fetchLog
                 ELSE /\ fetchLog' = Append(fetchLog, Request("POST", url))
                      /\ pc' = "awaitFetch"
                      /\ UNCHANGED ret
          /\ UNCHANGED <<aiCalls, resp, serviceLog, connVars, viewVars, cardVars>>

\* launchApp fetching once more when its first fetch rejects.
LaunchAppSettleRetrying ==
    /\ pc = "awaitFetch" /\ call.fn = "launchApp"
    /\ \E r \in FetchOutcomes(call.url, PostBodies) :
          /\ resp' = r
          /\ IF r.kind = "throw" /\ Len(fetchLog) < 2
             THEN /\ fetchLog' = Append(fetchLog, Request("POST", call.url))
                  /\ UNCHANGED <<pc, ret>>
             ELSE /\ ret' = launchAppResult(call.appName, call.url, r)
                  /\ pc' = "done"
                  /\ UNCHANGED fetchLog
          /\ UNCHANGED <<call, aiCalls, serviceLog, connVars, viewVars, cardVars>>

\* launchApp from the settling of its fetch to its return (60-75).
LaunchAppSettle ==
    /\ pc = "awaitFetch" /\ call.fn = "launchApp"
    /\ \E r \in FetchOutcomes(call.url, PostBodies) :
          /\ resp' = r
          /\ ret' = launchAppResult(call.appName, call.url, r)
          /\ pc' = "done"
          /\ UNCHANGED <<call, fetchLog, aiCalls, serviceLog, connVars, viewVars, cardVars>>

MaxRequests == 2        \* POSTs the launcher service has handled

\* Where the launcher service listens, and the names in its APPS
\* configuration (README 59-66).
ServiceUrl == U_pc8000
ConfiguredApps == { <<"VS", " ", "Code">> }

\* The launcher service spawning the command of a name it does not know.
servicePostSpawningUnknown(app, spawnRaises) ==
    IF spawnRaises
    THEN [spawns |-> 1, raised |-> TRUE, success |-> FALSE,
          message |-> <<"Could", "not", "launch", " ">> \o app]
    ELSE [spawns |-> 1, raised |-> FALSE, success |-> TRUE,
          message |-> app \o <<" ", "launched">>]

\* The launcher service spawning the command once more after a spawn that
\* raised.
servicePostRespawning(app, spawnRaises) ==
    IF app \notin ConfiguredApps
    THEN [spawns |-> 0, raised |-> FALSE, success |-> FALSE,
          message |-> <<"Unknown", "app">>]
    ELSE IF spawnRaises
    THEN [spawns |-> 2, raised |-> TRUE, success |-> FALSE,
          message |-> <<"Could", "not", "launch", " ">> \o app]
    ELSE [spawns |-> 1, raised |-> FALSE, success |-> TRUE,
          message |-> app \o <<" ", "launched">>]

\* POST {app} as the launcher service handles it (spec.md 4.1): the name is
\* looked up; absent, the answer is failure with a descriptive message;
\* present, its command is spawned, without waiting for the process, and the
\* answer is success, or failure when the spawn raises.
servicePost(app, spawnRaises) ==
    IF app \notin ConfiguredApps
    THEN [spawns |-> 0, raised |-> FALSE, success |-> FALSE,
          message |-> <<"Unknown", "app">>]
    ELSE IF spawnRaises
    THEN [spawns |-> 1, raised |-> TRUE, success |-> FALSE,
          message |-> <<"Could", "not", "launch", " ">> \o app]
    ELSE [spawns |-> 1, raised |-> FALSE, success |-> TRUE,
          message |-> app \o <<" ", "launched">>]

\* The POST of launchApp reaches the launcher service, which handles it and
\* answers (a failure with either kind of status code), and launchApp runs
\* from the settling of its fetch to its return (60-75).
ServiceHandlesPost ==
    /\ pc = "awaitFetch" /\ call.fn = "launchApp" /\ call.url = ServiceUrl
    /\ Len(serviceLog) < MaxRequests
    /\ \E spawnRaises \in BOOLEAN, ok \in BOOLEAN :
          LET handled == servicePost(call.appName, spawnRaises)
              r == Response(ok, Obj(Bool(handled.success), Str(handled.message),
                                    Undefined))
          IN  /\ handled.success => ok
              /\ serviceLog' = Append(serviceLog,
                                      [app |-> call.appName,
                                       spawns |-> handled.spawns,
                                       raised |-> handled.raised,
                                       success |-> handled.success,
                                       message |-> handled.message])
              /\ resp' = r
              /\ ret' = launchAppResult(call.appName, call.url, r)
              /\ pc' = "done"
              /\ UNCHANGED <<call, fetchLog, aiCalls, connVars, viewVars, cardVars>>

\* getAppsFromPC up to its await (116-121).
CallGetAppsFromPC ==
    /\ pc = "idle"
    /\ \E url \in UrlInputs :
          /\ call' = [NoCall EXCEPT !.fn = "getAppsFromPC", !.url = url]
          /\ IF url = <<>>
             THEN /\ ret' = Arr(<<>>)
                  /\ pc' = "done"
                  /\ UNCHANGED fetchLog
             ELSE /\ fetchLog' = Append(fetchLog, Request("GET", AppsEndpoint(url)))
                  /\ pc' = "awaitFetch"
                  /\ UNCHANGED ret
          /\ UNCHANGED <<aiCalls, resp, serviceLog, connVars, viewVars, cardVars>>

GetAppsSettle ==
    /\ pc = "awaitFetch" /\ call.fn = "getAppsFromPC"
    /\ \E r \in FetchOutcomes(AppsEndpoint(call.url), GetBodies) :
          /\ resp' = r
          /\ ret' = getAppsResult(r)
          /\ pc' = "done"
          /\ UNCHANGED <<call, fetchLog, aiCalls, serviceLog, connVars, viewVars, cardVars>>

\* testConnection up to its await (143-148).
CallTestConnection ==
    /\ pc = "idle"
    /\ \E url \in UrlInputs :
          /\ call' = [NoCall EXCEPT !.fn = "testConnection", !.url = url]
          /\ IF url = <<>>
             THEN /\ ret' = Bool(FALSE)
                  /\ pc' = "done"
                  /\ UNCHANGED fetchLog
             ELSE /\ fetchLog' = Append(fetchLog, Request("GET", AppsEndpoint(url)))
                  /\ pc' = "awaitFetch"
                  /\ UNCHANGED ret
          /\ UNCHANGED <<aiCalls, resp, serviceLog, connVars, viewVars, cardVars>>

TestConnectionSettle ==
    /\ pc = "awaitFetch" /\ call.fn = "testConnection"
    /\ \E r \in FetchOutcomes(AppsEndpoint(call.url), GetBodies) :
          /\ resp' = r
          /\ ret' = testConnectionResult(r)
          /\ pc' = "done"
          /\ UNCHANGED <<call, fetchLog, aiCalls, serviceLog, connVars, viewVars, cardVars>>

\* filterAppsAction up to its await (91-96).
CallFilterAppsAction ==
    /\ pc = "idle"
    /\ \E query \in StringsUpTo(MaxQueryLen), apps \in ListsUpTo(FilterNames, MaxApps) :
          /\ call' = [NoCall EXCEPT !.fn = "filterAppsAction", !.query = query,
                                    !.apps = apps]
          /\ IF query = <<>>
             THEN /\ ret' = Arr(apps)
                  /\ pc' = "done"
                  /\ UNCHANGED aiCalls
             ELSE /\ aiCalls' = aiCalls + 1
                  /\ pc' = "awaitAI"
                  /\ UNCHANGED ret
          /\ UNCHANGED <<fetchLog, resp, serviceLog, connVars, viewVars, cardVars>>

FilterAppsSettle ==
    /\ pc = "awaitAI" /\ call.fn = "filterAppsAction"
    /\ \E r \in AIOutcomes(call.apps) :
          /\ resp' = r
          /\ ret' = filterAppsResult(call.query, call.apps, r)
          /\ pc' = "done"
          /\ UNCHANGED <<call, fetchLog, aiCalls, serviceLog, connVars, viewVars, cardVars>>

\* The caller has the result; the next call starts from scratch.
Return ==
    /\ pc = "done"
    /\ pc' = "idle" /\ call' = NoCall /\ fetchLog' = <<>> /\ aiCalls' = 0
    /\ resp' = NoResponse /\ ret' = NoReturn
    /\ UNCHANGED <<serviceLog, connVars, viewVars, cardVars>>

ActionsNext ==
    \/ CallLaunchApp \/ LaunchAppSettle
    \/ CallGetAppsFromPC \/ GetAppsSettle
    \/ CallTestConnection \/ TestConnectionSettle
    \/ CallFilterAppsAction \/ FilterAppsSettle
    \/ Return

----------------------------------------------------------------------------
(* JSON.stringify / JSON.parse of the pinned list (app-launcher.tsx 188,   *)
(* 301, 326) on unit sequences.                                            *)

\* An entry of the pinned array that is no string: the undefined that
\* onDragEnd's splice (322-323) may insert, and the null it is stored and
\* read back as. Each is written as a one-unit sequence that no name is.
UndefinedEntry == <<"(undefined)">>
NullEntry      == <<"(null)">>
IsName(entry)  == entry \notin {UndefinedEntry, NullEntry}

Quoted(name) == <<"\"">> \o name \o <<"\"">>

\* One array element as JSON.stringify writes it: undefined becomes null.
StringifyElem(entry) == IF IsName(entry) THEN Quoted(entry) ELSE <<"null">>

RECURSIVE StringifyElems(_)
StringifyElems(names) ==
    IF names = <<>> THEN <<>>
    ELSE IF Len(names) = 1 THEN StringifyElem(names[1])
    ELSE StringifyElem(names[1]) \o <<",">> \o StringifyElems(Tail(names))

\* JSON.stringify of an array of strings.
JSONStringify(names) == <<"[">> \o StringifyElems(names) \o <<"]">>

JsonPunctuation == {"[", "]", ",", "\"", "{", "}"}
ParseFailed     == [ok |-> FALSE, isArray |-> FALSE, value |-> <<>>]
ParsedArray(v)  == [ok |-> TRUE, isArray |-> TRUE, value |-> v]
ParsedOther     == [ok |-> TRUE, isArray |-> FALSE, value |-> <<>>]

\* One string literal at the head of s: [ok, value, rest].
ParseStringLiteral(s) ==
    IF s = <<>> \/ Head(s) # "\"" \/ FirstIndex(Tail(s), "\"") = 0
    THEN [ok |-> FALSE, value |-> <<>>, rest |-> <<>>]
    ELSE LET body == Before(Tail(s), "\"")
         IN  [ok    |-> \A i \in 1..Len(body) : body[i] \notin JsonPunctuation,
              value |-> body,
              rest  |-> SubSeq(s, Len(body) + 3, Len(s))]

\* One array element at the head of s, a string literal or null.
ParseElement(s) ==
    IF s # <<>> /\ Head(s) = "null"
    THEN [ok |-> TRUE, value |-> NullEntry, rest |-> Tail(s)]
    ELSE ParseStringLiteral(s)

\* The elements of an array after its "[": elements separated by "," and
\* closed by "]", with nothing after it.
RECURSIVE ParseElems(_, _)
ParseElems(s, acc) ==
    LET lit == ParseElement(s)
    IN  IF ~lit.ok THEN ParseFailed
        ELSE IF lit.rest = <<"]">> THEN ParsedArray(Append(acc, lit.value))
        ELSE IF lit.rest # <<>> /\ Head(lit.rest) = ","
        THEN ParseElems(Tail(lit.rest), Append(acc, lit.value))
        ELSE ParseFailed

\* JSON.parse: [ok, isArray, value]; ok is FALSE where it throws.
JSONParse(s) ==
    IF s = <<"[", "]">> THEN ParsedArray(<<>>)
    ELSE IF s # <<>> /\ Head(s) = "[" THEN ParseElems(Tail(s), <<>>)
    ELSE IF s \in {<<"null">>, <<"{", "}">>, <<"80">>} THEN ParsedOther
    ELSE IF ParseStringLiteral(s).ok /\ ParseStringLiteral(s).rest = <<>>
    THEN ParsedOther
    ELSE ParseFailed

----------------------------------------------------------------------------
(* localStorage                                                            *)

getItem(store, key)        == IF key \in DOMAIN store THEN store[key] ELSE <<>>
hasItem(store, key)        == key \in DOMAIN store
setItem(store, key, value) ==
    [k \in DOMAIN store \cup {key} |-> IF k = key THEN value ELSE store[k]]
removeItem(store, key)     == [k \in DOMAIN store \ {key} |-> store[k]]
EmptyStorage               == [k \in {} |-> <<>>]

----------------------------------------------------------------------------
(* Derived values of AppLauncher (app-launcher.tsx 203-218, 237-255,       *)
(* 330-358)                                                                *)

\* Object.keys(ICONS) (mock-data.ts 22-33)
allIcons ==
    << <<"code">>, <<"terminal">>, <<"chrome">>, <<"figma">>, <<"bot">>,
       <<"fileText">>, <<"gitBranch">>, <<"mic">>, <<"music">>, <<"camera">> >>

\* app.icon || allIcons.find(key => name.toLowerCase().includes(key))
\*          || allIcons[iconIndex % allIcons.length]        (line 210)
assignIcon(app, iconIndex) ==
    IF app.icon # <<>> THEN app.icon
    ELSE IF \E k \in 1..Len(allIcons) : includes(toLowerCase(app.name), allIcons[k])
    THEN allIcons[CHOOSE k \in 1..Len(allIcons) :
                    /\ includes(toLowerCase(app.name), allIcons[k])
                    /\ \A j \in 1..(k - 1) :
                         ~includes(toLowerCase(app.name), allIcons[j])]
    ELSE allIcons[(iconIndex % Len(allIcons)) + 1]

\* The loop of lines 208-214: iconIndex runs on across the groups.
RECURSIVE processGroups(_, _)
processGroups(groups, iconIndex) ==
    IF groups = <<>> THEN <<>>
    ELSE LET g == Head(groups)
         IN  <<GroupEntry(g.group,
                   [i \in 1..Len(g.apps) |->
                       AppEntry(g.apps[i].name,
                                assignIcon(g.apps[i], iconIndex + i - 1))])>>
             \o processGroups(Tail(groups), iconIndex + Len(g.apps))

processApps(groups) == processGroups(groups, 0)

\* Object.values(appsByGroup).flat()
RECURSIVE flatApps(_)
flatApps(groups) ==
    IF groups = <<>> THEN <<>> ELSE Head(groups).apps \o flatApps(Tail(groups))

allApps == flatApps(appsByGroup)

\* Collation rank of a unit's base letter.
BaseRank(u) ==
    CASE LowerUnit(u) = " "    -> 0
      [] LowerUnit(u) = "a"    -> 1
      [] LowerUnit(u) = "b"    -> 2
      [] LowerUnit(u) = "ch"   -> 3
      [] LowerUnit(u) = "code" -> 4
      [] OTHER                 -> 5

\* Lexicographic comparison of the base letters: -1, 0 or 1.
RECURSIVE comparePrimary(_, _)
comparePrimary(x, y) ==
    IF x = <<>> /\ y = <<>> THEN 0
    ELSE IF x = <<>> THEN -1
    ELSE IF y = <<>> THEN 1
    ELSE IF BaseRank(Head(x)) < BaseRank(Head(y)) THEN -1
    ELSE IF BaseRank(Head(x)) > BaseRank(Head(y)) THEN 1
    ELSE comparePrimary(Tail(x), Tail(y))

\* Among equal base letters, lower case sorts before upper case at the first
\* difference.
RECURSIVE compareCase(_, _)
compareCase(x, y) ==
    IF x = <<>> \/ y = <<>> THEN 0
    ELSE IF Head(x) = Head(y) THEN compareCase(Tail(x), Tail(y))
    ELSE IF Head(x) = LowerUnit(Head(x)) THEN -1 ELSE 1

\* String.prototype.localeCompare
localeCompare(x, y) ==
    IF comparePrimary(x, y) # 0 THEN comparePrimary(x, y) ELSE compareCase(x, y)

\* Array.prototype.indexOf, 0-based, -1 when absent.
indexOf(list, x) == FirstIndex(list, x) - 1
listIncludes(list, x) == \E i \in 1..Len(list) : list[i] = x

\* The comparator of lines 244-254.
comparePinnedFirst(a, b, pinned) ==
    LET aIsPinned == listIncludes(pinned, a.name)
        bIsPinned == listIncludes(pinned, b.name)
    IN  IF aIsPinned /\ ~bIsPinned THEN -1
        ELSE IF ~aIsPinned /\ bIsPinned THEN 1
        ELSE IF aIsPinned /\ bIsPinned
        THEN indexOf(pinned, a.name) - indexOf(pinned, b.name)
        ELSE localeCompare(a.name, b.name)

comparePinnedOrder(a, b, pinned) == indexOf(pinned, a.name) - indexOf(pinned, b.name)
compareNames(a, b, pinned) == localeCompare(a.name, b.name)

\* The comparator a sort call is given, by name.
compare(cmp, a, b, pinned) ==
    CASE cmp = "pinnedFirst" -> comparePinnedFirst(a, b, pinned)
      [] cmp = "pinnedOrder" -> comparePinnedOrder(a, b, pinned)
      [] OTHER               -> compareNames(a, b, pinned)

\* Array.prototype.sort (stable) with the comparator named cmp.
RECURSIVE insertSorted(_, _, _, _)
insertSorted(x, sorted, cmp, pinned) ==
    IF sorted = <<>> THEN <<x>>
    ELSE IF compare(cmp, x, Head(sorted), pinned) < 0 THEN <<x>> \o sorted
    ELSE <<Head(sorted)>> \o insertSorted(x, Tail(sorted), cmp, pinned)

RECURSIVE sort(_, _, _)
sort(list, cmp, pinned) ==
    IF list = <<>> THEN <<>>
    ELSE insertSorted(list[Len(list)],
                      sort(SubSeq(list, 1, Len(list) - 1), cmp, pinned),
                      cmp, pinned)

\* The search filter comparing case-sensitively.
sortedAndFilteredAppsCaseSensitive(apps, query, pinned) ==
    sort(IF query # <<>>
         THEN SelectSeq(apps, LAMBDA app : includes(app.name, query))
         ELSE apps,
         "pinnedFirst", pinned)

\* Lines 239-255.
sortedAndFilteredAppsOf(apps, query, pinned) ==
    LET filtered ==
            IF query # <<>>
            THEN SelectSeq(apps, LAMBDA app :
                     includes(toLowerCase(app.name), toLowerCase(query)))
            ELSE apps
    IN  sort(filtered, "pinnedFirst", pinned)

sortedAndFilteredApps == sortedAndFilteredAppsOf(allApps, searchQuery, pinnedApps)

\* Lines 355-358: no search view without a query.
NoSearchResults == [shown |-> FALSE, apps |-> <<>>]
searchResults ==
    IF searchQuery = <<>> THEN NoSearchResults
    ELSE [shown |-> TRUE, apps |-> sortedAndFilteredApps]

\* Line 330.
isConnected == localServerUrl # <<>>

\* groups[groupName].push(...unpinned); groups[groupName].sort(...)
\* (lines 345-349) on the entries collected so far.
addToGroup(groups, name, unpinned) ==
    IF \E i \in 1..Len(groups) : groups[i].group = name
    THEN [i \in 1..Len(groups) |->
             IF groups[i].group = name
             THEN GroupEntry(name, sort(groups[i].apps \o unpinned, "names", <<>>))
             ELSE groups[i]]
    ELSE Append(groups, GroupEntry(name, sort(unpinned, "names", <<>>)))

RECURSIVE addUnpinnedGroups(_, _, _)
addUnpinnedGroups(groups, rest, pinned) ==
    IF rest = <<>> THEN groups
    ELSE LET unpinned == SelectSeq(Head(rest).apps,
                                   LAMBDA app : ~listIncludes(pinned, app.name))
         IN  addUnpinnedGroups(
                 IF unpinned # <<>> THEN addToGroup(groups, Head(rest).group, unpinned)
                 ELSE groups,
                 Tail(rest), pinned)

\* Lines 332-353.
displayedGroupsOf(byGroup, pinned) ==
    LET pinnedShown ==
            sort(SelectSeq(flatApps(byGroup),
                           LAMBDA app : listIncludes(pinned, app.name)),
                 "pinnedOrder", pinned)
    IN  addUnpinnedGroups(
            IF pinnedShown # <<>> THEN <<GroupEntry(<<"Pinned">>, pinnedShown)>>
            ELSE <<>>,
            byGroup, pinned)

displayedGroups == displayedGroupsOf(appsByGroup, pinnedApps)

----------------------------------------------------------------------------
(* The AppLauncher component: construction, effects and handlers           *)

MaxInFlight == 2        \* fetchAndSetApps calls awaiting their result

\* Texts typed into the Server URL field.
TempInputs ==
    { <<>>,
      <<"pc">>,
      U_http \o <<"pc", ":", "80">>,
      <<"pc", ":", "99999">> }

\* Texts a scanned QR code may carry.
QrPayloads == { U_pc8000, U_http, <<"pc", ":", "8000">> }

\* What a browser may hold for this origin when the page loads.
InitialStorage ==
    { [k \in keys |-> IF k = "localServerUrl" THEN U_pc8000 ELSE p] :
        keys \in SUBSET {"localServerUrl", "pinnedApps"},
        p \in { JSONStringify(<<>>), JSONStringify(<<N_b>>),
                JSONStringify(<<N_Ab, N_b>>) } }

\* useActionState(launchApp, initialState) and useState('idle') of a card
\* that has just been mounted (52-55); pending is useFormStatus (120).
FreshCard == [pending |-> FALSE, status |-> "idle"]

\* The place of the search view in the tree (564-575); the grouped view has
\* one place per group (592-607).
SearchPlace == <<"(search)">>

\* The AppCard instances on screen, each named by its place and its key
\* (565-566, 607-608), for the state a render sees: nothing but skeletons
\* while loading (550), the search view when there is a query (563).
cardKeysOf(loading, query, byGroup, pinned) ==
    IF loading THEN {}
    ELSE IF query # <<>>
    THEN LET found == sortedAndFilteredAppsOf(flatApps(byGroup), query, pinned)
         IN  {<<SearchPlace, found[i].name>> : i \in 1..Len(found)}
    ELSE LET groups == displayedGroupsOf(byGroup, pinned)
         IN  UNION {{<<groups[g].group, groups[g].apps[i].name>> :
                        i \in 1..Len(groups[g].apps)} :
                    g \in 1..Len(groups)}

cardKeys == cardKeysOf(isLoading, searchQuery, appsByGroup, pinnedApps)

\* React's reconciliation of the cards: an instance that stays at its place
\* keeps its state, one that appears is mounted fresh, one that disappears
\* is unmounted with its state.
rerendered(cs, keys) ==
    [k \in keys |-> IF k \in DOMAIN cs THEN cs[k] ELSE FreshCard]

\* The form actions in flight after a render: the action of an unmounted
\* card keeps running, its result has no component to go to.
detached(ls, keys) ==
    [n \in 1..Len(ls) |-> [ls[n] EXCEPT !.live = ls[n].live /\ ls[n].card \in keys]]

\* The render that follows a state change of AppLauncher.
CardsRerendered ==
    /\ cards' = rerendered(cards, cardKeysOf(isLoading', searchQuery',
                                              appsByGroup', pinnedApps'))
    /\ launches' = detached(launches, cardKeysOf(isLoading', searchQuery',
                                                 appsByGroup', pinnedApps'))

\* useState initial values (162-171).
ClientFresh ==
    /\ localServerUrl = <<>>
    /\ tempServerUrl = <<>>
    /\ appsByGroup = <<>>
    /\ isLoading = TRUE
    /\ searchQuery = <<>>
    /\ pinnedApps = <<>>
    /\ isSettingsOpen = FALSE
    /\ isQRScannerOpen = FALSE
    /\ toast = ""
    /\ mounted = FALSE
    /\ inflight = <<>>
    /\ cards = rerendered(<<>>, {})
    /\ launches = <<>>

ClientInit ==
    /\ localStorage \in InitialStorage
    /\ ClientFresh

\* The effect of lines 233-235 after a render in which localServerUrl became
\* url: fetchAndSetApps(url) runs up to its await (200-201).
RECURSIVE startFetches(_, _)
startFetches(queue, urls) ==
    IF urls = <<>> THEN queue ELSE startFetches(Append(queue, Head(urls)), Tail(urls))

\* The pinned list the load effect adopts (185-196).
loadedPinnedApps(store) ==
    LET parsed == JSONParse(getItem(store, "pinnedApps"))
    IN  IF getItem(store, "pinnedApps") # <<>> /\ parsed.ok /\ parsed.isArray
        THEN parsed.value ELSE <<>>

\* The load effect without the removeItem of its catch block.
storageAfterLoadKeeping(store) == store

\* The storage the load effect leaves (192-195).
storageAfterLoad(store) ==
    IF getItem(store, "pinnedApps") # <<>> /\ ~JSONParse(getItem(store, "pinnedApps")).ok
    THEN removeItem(store, "pinnedApps") ELSE store

\* The mount effects: the load effect (177-197), the fetch effect for the
\* initial '' (233-235) and, when a URL was stored, the fetch effect again
\* after the re-render.
Mount ==
    /\ ~mounted
    /\ mounted' = TRUE
    /\ LET storedUrl == getItem(localStorage, "localServerUrl")
       IN  /\ IF storedUrl # <<>>
              THEN /\ localServerUrl' = storedUrl
                   /\ tempServerUrl' = storedUrl
                   /\ UNCHANGED isSettingsOpen
                   /\ inflight' = startFetches(inflight, <<<<>>, storedUrl>>)
              ELSE /\ isSettingsOpen' = TRUE
                   /\ UNCHANGED <<localServerUrl, tempServerUrl>>
                   /\ inflight' = startFetches(inflight, <<<<>>>>)
    /\ pinnedApps' = loadedPinnedApps(localStorage)
    /\ localStorage' = storageAfterLoad(localStorage)
    /\ isLoading' = TRUE
    /\ UNCHANGED <<appsByGroup, searchQuery, isQRScannerOpen, toast>>
    /\ UNCHANGED actionVars
    /\ CardsRerendered

\* Object.keys(fetched).length (line 203).
keysCount(fetched) == Len(fetched.v)

\* fetchAndSetApps leaving the old list on screen when the fetch came back
\* empty.
afterFetchKeepingList(url, fetched, cur) ==
    IF keysCount(fetched) > 0
    THEN IF fetched.t = "groups"
         THEN [cur EXCEPT !.appsByGroup = processApps(fetched.v),
                          !.isLoading = FALSE]
         ELSE cur
    ELSE IF url # <<>>
    THEN [cur EXCEPT !.toast = "Could not fetch apps", !.isLoading = FALSE]
    ELSE [cur EXCEPT !.appsByGroup = <<>>, !.isLoading = FALSE]

\* fetchAndSetApps after its await (203-230), for the call made with url and
\* answered with fetched: the new [appsByGroup, toast, isLoading].  A list
\* of plain strings has keys but its elements have no map(): line 209 throws,
\* the promise rejects and nothing is set.
afterFetch(url, fetched, cur) ==
    IF keysCount(fetched) > 0
    THEN IF fetched.t = "groups"
         THEN [cur EXCEPT !.appsByGroup = processApps(fetched.v),
                          !.isLoading = FALSE]
         ELSE cur
    ELSE IF url # <<>>
    THEN [appsByGroup |-> <<>>, toast |-> "Could not fetch apps",
          isLoading |-> FALSE]
    ELSE [cur EXCEPT !.appsByGroup = <<>>, !.isLoading = FALSE]

\* What getAppsFromPC may resolve to when its fetch reaches a server, and
\* when its fetch can only reject.
appsFromReachedServer ==
    {getAppsResult(r) : r \in FetchOutcomes(AppsEndpoint(U_pc8000), GetBodies)}
appsFromNoServer ==
    {getAppsResult(Throw(e)) : e \in NetworkErrors}

\* What getAppsFromPC(url) may resolve to (116: no request for '').
getAppsOutcomes(url) ==
    IF url = <<>> THEN {Arr(<<>>)}
    ELSE IF Fetchable(AppsEndpoint(url)) THEN appsFromReachedServer
    ELSE appsFromNoServer

RemoveAt(q, i) == SubSeq(q, 1, i - 1) \o SubSeq(q, i + 1, Len(q))

\* The awaited getAppsFromPC call at position i of inflight resolves to
\* fetched and its fetchAndSetApps finishes.
FetchCompleteWith(i, fetched) ==
    LET new == afterFetch(inflight[i], fetched,
                          [appsByGroup |-> appsByGroup, toast |-> toast,
                           isLoading |-> isLoading])
    IN  /\ inflight' = RemoveAt(inflight, i)
        /\ appsByGroup' = new.appsByGroup
        /\ toast' = new.toast
        /\ isLoading' = new.isLoading
        /\ UNCHANGED <<localStorage, localServerUrl, tempServerUrl, searchQuery,
                       pinnedApps, isSettingsOpen, isQRScannerOpen, mounted,
                       actionVars>>
        /\ CardsRerendered

FetchComplete ==
    /\ mounted
    /\ \E i \in 1..Len(inflight) : \E fetched \in getAppsOutcomes(inflight[i]) :
          FetchCompleteWith(i, fetched)

\* The fetch effect (233-235) for a handler that sets localServerUrl to url:
\* it runs only when the value changed.
urlEffectEnabled(url) == url = localServerUrl \/ Len(inflight) < MaxInFlight
inflightAfterUrl(url) ==
    IF url = localServerUrl THEN inflight ELSE Append(inflight, url)
isLoadingAfterUrl(url) == IF url = localServerUrl THEN isLoading ELSE TRUE

\* saveUrl (257-264) and the fetch effect it triggers.
saveUrl(url) ==
    /\ urlEffectEnabled(url)
    /\ localStorage' = setItem(localStorage, "localServerUrl", url)
    /\ localServerUrl' = url
    /\ tempServerUrl' = url
    /\ toast' = "Connected!"
    /\ isSettingsOpen' = FALSE
    /\ isQRScannerOpen' = FALSE
    /\ inflight' = inflightAfterUrl(url)
    /\ isLoading' = isLoadingAfterUrl(url)
    /\ UNCHANGED <<appsByGroup, searchQuery, pinnedApps, mounted>>

\* Lines 273-275: the URL handleSaveSettings saves for a non-empty input, or
\* ok = FALSE where new URL() throws.
formattedUrl(input) ==
    LET url == URLParse(IF includes(input, <<":", "/", "/">>)
                        THEN input ELSE U_http \o input)
        withPort == IF URLPort(url) = <<>> THEN URLSetPort(url, <<"8000">>) ELSE url
    IN  [ok |-> url.ok,
         url |-> IF url.ok THEN stripTrailingSlash(URLToString(withPort)) ELSE <<>>]

\* The toast alone (268, 278).
onlyToast(title) ==
    /\ toast' = title
    /\ UNCHANGED <<localStorage, localServerUrl, tempServerUrl, appsByGroup,
                   isLoading, searchQuery, pinnedApps, isSettingsOpen,
                   isQRScannerOpen, mounted, inflight>>

\* handleSaveSettings (266-280), the Save button of the settings dialog.
HandleSaveSettings ==
    /\ mounted /\ isSettingsOpen
    /\ IF tempServerUrl = <<>> THEN onlyToast("URL is empty")
       ELSE IF ~formattedUrl(tempServerUrl).ok THEN onlyToast("Invalid URL")
       ELSE saveUrl(formattedUrl(tempServerUrl).url)
    /\ UNCHANGED actionVars
    /\ CardsRerendered

\* What testConnection(url) may resolve to for a non-empty url (part_001
\* 142-154).
testConnectionOutcomes(url) ==
    {testConnectionResult(r).v : r \in FetchOutcomes(AppsEndpoint(url), GetBodies)}

\* handleTestConnection adopting a URL that passed its test.
HandleTestConnectionSaving ==
    /\ mounted
    /\ IF tempServerUrl = <<>> THEN onlyToast("URL is empty")
       ELSE \E success \in testConnectionOutcomes(tempServerUrl) :
               IF success THEN saveUrl(tempServerUrl)
               ELSE onlyToast("Connection Failed")
    /\ UNCHANGED actionVars
    /\ CardsRerendered

\* handleTestConnection (282-293), from the call to the toast that follows
\* its await; it reads tempServerUrl before the await and sets no state.
HandleTestConnection ==
    /\ mounted
    /\ IF tempServerUrl = <<>> THEN onlyToast("URL is empty")
       ELSE \E success \in testConnectionOutcomes(tempServerUrl) :
               onlyToast(IF success THEN "Success!" ELSE "Connection Failed")
    /\ UNCHANGED actionVars
    /\ CardsRerendered

\* handleDisconnect without setAppsByGroup({}).
HandleDisconnectKeepingList ==
    /\ mounted /\ isSettingsOpen /\ isConnected
    /\ urlEffectEnabled(<<>>)
    /\ localStorage' = removeItem(localStorage, "localServerUrl")
    /\ localServerUrl' = <<>>
    /\ tempServerUrl' = <<>>
    /\ toast' = "Disconnected"
    /\ isSettingsOpen' = FALSE
    /\ inflight' = inflightAfterUrl(<<>>)
    /\ isLoading' = isLoadingAfterUrl(<<>>)
    /\ UNCHANGED <<appsByGroup, searchQuery, pinnedApps, isQRScannerOpen, mounted>>
    /\ UNCHANGED actionVars
    /\ CardsRerendered

\* handleDisconnect (304-311), the Disconnect button (shown when connected),
\* and the fetch effect for the '' it sets.
HandleDisconnect ==
    /\ mounted /\ isSettingsOpen /\ isConnected
    /\ urlEffectEnabled(<<>>)
    /\ localStorage' = removeItem(localStorage, "localServerUrl")
    /\ localServerUrl' = <<>>
    /\ tempServerUrl' = <<>>
    /\ appsByGroup' = <<>>
    /\ toast' = "Disconnected"
    /\ isSettingsOpen' = FALSE
    /\ inflight' = inflightAfterUrl(<<>>)
    /\ isLoading' = isLoadingAfterUrl(<<>>)
    /\ UNCHANGED <<searchQuery, pinnedApps, isQRScannerOpen, mounted>>
    /\ UNCHANGED actionVars
    /\ CardsRerendered

\* The Server URL field's onChange (422).
SetTempServerUrl ==
    /\ mounted /\ isSettingsOpen
    /\ UNCHANGED actionVars
    /\ \E v \in TempInputs :
          /\ tempServerUrl' = v
          /\ UNCHANGED <<localStorage, localServerUrl, appsByGroup, isLoading,
                         searchQuery, pinnedApps, isSettingsOpen, isQRScannerOpen,
                         toast, mounted, inflight>>
    /\ CardsRerendered

\* The settings dialog's onOpenChange (400): the Connect button, the Close
\* button.
SetIsSettingsOpen ==
    /\ mounted
    /\ UNCHANGED actionVars
    /\ \E open \in BOOLEAN :
          /\ isSettingsOpen' = open
          /\ UNCHANGED <<localStorage, localServerUrl, tempServerUrl, appsByGroup,
                         isLoading, searchQuery, pinnedApps, isQRScannerOpen, toast,
                         mounted, inflight>>
    /\ CardsRerendered

\* The QR button of the settings dialog (460) and the scanner dialog's
\* onOpenChange (473).
SetIsQRScannerOpen ==
    /\ mounted
    /\ UNCHANGED actionVars
    /\ \E open \in BOOLEAN :
          /\ open => isSettingsOpen
          /\ isQRScannerOpen' = open
          /\ UNCHANGED <<localStorage, localServerUrl, tempServerUrl, appsByGroup,
                         isLoading, searchQuery, pinnedApps, isSettingsOpen, toast,
                         mounted, inflight>>
    /\ CardsRerendered

\* onScan passing the scanned text through the validation of
\* handleSaveSettings.
OnScanOfValidated(url) ==
    /\ UNCHANGED actionVars
    /\ IF formattedUrl(url).ok
       THEN saveUrl(formattedUrl(url).url)
       ELSE /\ toast' = "Invalid QR Code"
            /\ isQRScannerOpen' = FALSE
            /\ UNCHANGED <<localStorage, localServerUrl, tempServerUrl,
                           appsByGroup, isLoading, searchQuery, pinnedApps,
                           isSettingsOpen, mounted, inflight>>
    /\ CardsRerendered

\* QrScanner onScan with the non-empty text url (490-504).
OnScanOf(url) ==
    /\ UNCHANGED actionVars
    /\ IF startsWith(url, <<"http", ":", "/", "/">>)
          \/ startsWith(url, <<"https", ":", "/", "/">>)
       THEN saveUrl(url)
       ELSE /\ toast' = "Invalid QR Code"
            /\ isQRScannerOpen' = FALSE
            /\ UNCHANGED <<localStorage, localServerUrl, tempServerUrl,
                           appsByGroup, isLoading, searchQuery, pinnedApps,
                           isSettingsOpen, mounted, inflight>>
    /\ CardsRerendered

OnScan ==
    /\ mounted /\ isQRScannerOpen
    /\ \E url \in QrPayloads : OnScanOf(url)

\* The search box's onChange (544).
SetSearchQuery ==
    /\ mounted
    /\ UNCHANGED actionVars
    /\ \E q \in StringsUpTo(MaxQueryLen) :
          /\ searchQuery' = q
          /\ UNCHANGED <<localStorage, localServerUrl, tempServerUrl, appsByGroup,
                         isLoading, pinnedApps, isSettingsOpen, isQRScannerOpen,
                         toast, mounted, inflight>>
    /\ CardsRerendered

\* togglePin as a pin-only operation: a pinned name stays as it is.
toggledPinOnly(pinned, appName) ==
    IF listIncludes(pinned, appName) THEN pinned ELSE Append(pinned, appName)

\* The pinned list togglePin computes (296-298).
toggled(pinned, appName) ==
    IF listIncludes(pinned, appName)
    THEN SelectSeq(pinned, LAMBDA name : name # appName)
    ELSE Append(pinned, appName)

\* The names of the cards on screen: the search view when there is a query,
\* else the grouped view; nothing but skeletons while loading (550-628).
cardsShown ==
    IF isLoading THEN {}
    ELSE IF searchResults.shown
    THEN {searchResults.apps[i].name : i \in 1..Len(searchResults.apps)}
    ELSE {flatApps(displayedGroups)[i].name : i \in 1..Len(flatApps(displayedGroups))}

\* togglePin (295-302), the pin button of the card of appName.
TogglePinOf(appName) ==
    /\ pinnedApps' = toggled(pinnedApps, appName)
    /\ localStorage' = setItem(localStorage, "pinnedApps",
                               JSONStringify(toggled(pinnedApps, appName)))
    /\ UNCHANGED <<localServerUrl, tempServerUrl, appsByGroup, isLoading,
                   searchQuery, isSettingsOpen, isQRScannerOpen, toast,
                   mounted, inflight>>
    /\ UNCHANGED actionVars
    /\ CardsRerendered

TogglePin ==
    /\ mounted
    /\ \E appName \in cardsShown : TogglePinOf(appName)

MaxPinned == 3          \* entries of the pinned list once a drag has grown it

\* The cards of the displayed group 'Pinned', <<>> when it is not shown.
pinnedGroupShown ==
    IF \E g \in 1..Len(displayedGroups) : displayedGroups[g].group = <<"Pinned">>
    THEN displayedGroups[CHOOSE g \in 1..Len(displayedGroups) :
                            displayedGroups[g].group = <<"Pinned">>].apps
    ELSE <<>>

\* newPinnedApps.splice(source.index, 1) (322): what is taken out, undefined
\* when the index is past the end, and what is left. Positions count from 1.
spliceOut(list, i) ==
    IF i <= Len(list) THEN [item |-> list[i], rest |-> RemoveAt(list, i)]
    ELSE [item |-> UndefinedEntry, rest |-> list]

\* newPinnedApps.splice(destination.index, 0, item) (323): a start past the
\* end is the end.
spliceIn(list, j, item) ==
    LET k == IF j - 1 <= Len(list) THEN j - 1 ELSE Len(list)
    IN  SubSeq(list, 1, k) \o <<item>> \o SubSeq(list, k + 1, Len(list))

\* Lines 321-323.
reordered(pinned, i, j) == spliceIn(spliceOut(pinned, i).rest, j, spliceOut(pinned, i).item)

\* onDragEnd without the localStorage.setItem of line 326.
OnDragEndAtUnsaved(i, j) ==
    /\ IF j = 0
       THEN UNCHANGED pinnedApps
       ELSE pinnedApps' = reordered(pinnedApps, i, j)
    /\ UNCHANGED <<localStorage, localServerUrl, tempServerUrl, appsByGroup,
                   isLoading, searchQuery, isSettingsOpen, isQRScannerOpen,
                   toast, mounted, inflight>>
    /\ UNCHANGED actionVars
    /\ CardsRerendered

\* onDragEnd (313-327) for the card at position i of the group 'Pinned'
\* dropped on position j of that group; j = 0 is a drop with no destination
\* (outside every group, or on a group that takes no drops, 602).
OnDragEndAt(i, j) ==
    /\ IF j = 0
       THEN UNCHANGED <<pinnedApps, localStorage>>
       ELSE /\ pinnedApps' = reordered(pinnedApps, i, j)
            /\ localStorage' = setItem(localStorage, "pinnedApps",
                                       JSONStringify(reordered(pinnedApps, i, j)))
    /\ UNCHANGED <<localServerUrl, tempServerUrl, appsByGroup, isLoading,
                   searchQuery, isSettingsOpen, isQRScannerOpen, toast,
                   mounted, inflight>>
    /\ UNCHANGED actionVars
    /\ CardsRerendered

\* A drag of a pinned card (only those can be dragged, 73-76) in the grouped
\* view (592-628).
OnDragEnd ==
    /\ mounted /\ ~isLoading /\ ~searchResults.shown
    /\ \E i \in 1..Len(pinnedGroupShown) : \E j \in 0..Len(pinnedGroupShown) :
          /\ listIncludes(pinnedApps, pinnedGroupShown[i].name)
          /\ (j > 0 /\ i > Len(pinnedApps)) => Len(pinnedApps) < MaxPinned
          /\ OnDragEndAt(i, j)

\* The page is loaded anew: the component state is gone, calls in flight
\* are dropped with the old page, localStorage stays.
Reload ==
    /\ mounted
    /\ mounted' = FALSE
    /\ appsByGroup' = <<>> /\ isLoading' = TRUE /\ searchQuery' = <<>>
    /\ localServerUrl' = <<>> /\ tempServerUrl' = <<>>
    /\ isSettingsOpen' = FALSE /\ isQRScannerOpen' = FALSE
    /\ pinnedApps' = <<>> /\ toast' = "" /\ inflight' = <<>>
    /\ UNCHANGED localStorage
    /\ UNCHANGED actionVars
    /\ CardsRerendered

MaxLaunches == 2        \* form actions awaiting launchApp

\* The launch button disabled by its status alone.
disabledAfterResult(card) == card.status # "idle"

\* The launch button disabled by useFormStatus alone.
disabledWhilePending(card) == card.pending

\* disabled={pending || status !== 'idle'} (134).
disabled(card) == card.pending \/ card.status # "idle"

\* A tap on the launch button of card k: the form is submitted, formAction
\* (54, 92) calls launchApp and useFormStatus reports pending (120).
SubmitLaunchOf(k) ==
    /\ ~disabled(cards[k])
    /\ Len(launches) < MaxLaunches
    /\ cards' = [cards EXCEPT ![k].pending = TRUE]
    /\ launches' = Append(launches, [card |-> k, live |-> TRUE])
    /\ UNCHANGED <<actionVars, connVars, viewVars>>

SubmitLaunch ==
    /\ mounted
    /\ \E k \in DOMAIN cards : SubmitLaunchOf(k)

\* The launchApp call at position n of launches resolves to a state with a
\* truthy or falsy success and a message (part_001 46, 66, 75: never empty);
\* the card that submitted it, while mounted, takes the state and its
\* effect runs (57-70).
LaunchResultOf(n, isSuccess) ==
    /\ launches' = RemoveAt(launches, n)
    /\ IF launches[n].live
       THEN /\ cards' = [cards EXCEPT ![launches[n].card] =
                            [pending |-> FALSE,
                             status |-> IF isSuccess THEN "success" ELSE "error"]]
            /\ toast' = IF isSuccess THEN "Success" ELSE "Error"
       ELSE UNCHANGED <<cards, toast>>
    /\ UNCHANGED <<localStorage, localServerUrl, tempServerUrl, appsByGroup,
                   isLoading, isSettingsOpen, isQRScannerOpen, mounted, inflight>>
    /\ UNCHANGED <<actionVars, viewVars>>

LaunchResult ==
    /\ mounted
    /\ \E n \in 1..Len(launches) : \E isSuccess \in BOOLEAN :
          LaunchResultOf(n, isSuccess)

\* The timer of line 67 fires on card k, 2000 ms after its result.
StatusResetOf(k) ==
    /\ k \in DOMAIN cards
    /\ cards[k].status # "idle"
    /\ cards' = [cards EXCEPT ![k].status = "idle"]
    /\ UNCHANGED <<actionVars, connVars, viewVars, launches>>

StatusReset ==
    /\ mounted
    /\ \E k \in DOMAIN cards : StatusResetOf(k)

----------------------------------------------------------------------------
(* Specifications                                                          *)

\* The server actions alone: the component is not mounted.
SpecActionsInit ==
    /\ ActionsInit
    /\ ClientInit /\ localStorage = EmptyStorage
SpecActions == SpecActionsInit /\ [][ActionsNext]_vars

\* launchApp and the launcher service: a POST reaches the service
\* (ServiceHandlesPost), or the fetch settles without it (LaunchAppSettle:
\* the network fails, or another host answers).
ServiceNext == CallLaunchApp \/ LaunchAppSettle \/ ServiceHandlesPost \/ Return
SpecService == SpecActionsInit /\ [][ServiceNext]_vars

\* filterAppsAction alone, with the progress the runtime gives it: a call
\* is made and a resolved call returns. The promise of the AI flow
\* (part_003 57) is settled by the model provider alone; filterAppsAction
\* sets no deadline on its await (part_001 96), so no progress is assumed
\* for it.
FilterNext == CallFilterAppsAction \/ FilterAppsSettle \/ Return
FilterFairness == WF_vars(CallFilterAppsAction) /\ WF_vars(Return)
SpecFilterLive == SpecActionsInit /\ [][FilterNext]_vars /\ FilterFairness

\* Connection management: settings, QR scan, disconnect, the app-list fetch.
Init ==
    /\ ActionsInit /\ ClientInit
    /\ getItem(localStorage, "pinnedApps") \in {<<>>, JSONStringify(<<N_b>>)}
Next ==
    \/ Mount
    \/ FetchComplete
    \/ SetIsSettingsOpen
    \/ SetIsQRScannerOpen
    \/ SetTempServerUrl
    \/ HandleSaveSettings
    \/ HandleDisconnect
    \/ OnScan
Spec == Init /\ [][Next]_vars

\* The app grid of a connected client: search and pins.
ViewInit ==
    /\ ActionsInit /\ ClientInit
    /\ hasItem(localStorage, "localServerUrl")
ViewNext ==
    \/ Mount
    \/ FetchComplete
    \/ SetSearchQuery
    \/ TogglePin
SpecView == ViewInit /\ [][ViewNext]_vars

\* The app grid with its pins: toggles, drags, search and reloads.
PinsNext ==
    \/ Mount
    \/ FetchComplete
    \/ SetSearchQuery
    \/ TogglePin
    \/ OnDragEnd
    \/ Reload
SpecPins == ViewInit /\ [][PinsNext]_vars

\* Values of the item 'pinnedApps' as anything on the origin may have left
\* them: arrays as JSON.stringify writes them, JSON that is no array, text
\* that is no JSON, and the empty string.
StoredArrays    == {<<>>, <<N_b>>, <<N_Ab, N_b>>, <<NullEntry>>}
StoredNonArrays == { <<"{", "}">>, <<"null">>, <<"80">>, Quoted(N_b) }
StoredInvalid   == { <<"[", "\"", "b", "\"">>, <<"[", "\"", "b", "\"", ",", "]">>,
                     <<"b">>, <<"]">> }
EmptyString     == <<>>
StoredPinValues ==
    {JSONStringify(list) : list \in StoredArrays}
    \cup StoredNonArrays \cup StoredInvalid \cup {EmptyString}

LoadStorage ==
    { [k \in keys |-> IF k = "localServerUrl" THEN U_pc8000 ELSE p] :
        keys \in SUBSET {"localServerUrl", "pinnedApps"}, p \in StoredPinValues }

\* Start-up over any stored values: the load effect, the first fetches, the
\* first pin toggles, and the page loaded again over what they left.
LoadInit == ActionsInit /\ localStorage \in LoadStorage /\ ClientFresh
LoadNext ==
    \/ Mount
    \/ FetchComplete
    \/ TogglePin
    \/ Reload
SpecLoad == LoadInit /\ [][LoadNext]_vars

\* The app grid with its launch buttons, on a first visit with nothing
\* pinned yet: taps, results, status timers, and the pin toggles that move
\* a card to another group and so mount it anew.
LaunchNext ==
    \/ Mount
    \/ FetchComplete
    \/ TogglePin
    \/ SubmitLaunch
    \/ LaunchResult
    \/ StatusReset
LaunchInit ==
    /\ ViewInit
    /\ ~hasItem(localStorage, "pinnedApps")
SpecLaunch == LaunchInit /\ [][LaunchNext]_vars

\* The places a card can be mounted at and the names it can carry.
CardPlaces == {<<"Pinned">>, <<"Work">>, <<"Fun">>}
CardNames  == {N_Ab, N_aBa, N_b, N_Code}
AllCardKeys == {<<place, name>> : place \in CardPlaces, name \in CardNames}

\* The same grid with the progress the browser gives it: the timer a
\* result effect has set (67) fires unless the effect's cleanup clears it
\* (68), which happens only when the card is unmounted or takes a new
\* result.  No progress is assumed for the taps of the user, for the
\* fetches, or for the launchApp calls in flight.
LaunchFairness == \A k \in AllCardKeys : WF_vars(mounted /\ StatusResetOf(k))
SpecLaunchLive == LaunchInit /\ [][LaunchNext]_vars /\ LaunchFairness

\* The settings dialog and the scanner dialog are modal (400, 473): while
\* one is open the page behind it takes no input.
gridReachable == ~isSettingsOpen /\ ~isQRScannerOpen

\* No launch is awaited and every card shows its icon.
cardsIdle ==
    /\ launches = <<>>
    /\ \A k \in DOMAIN cards : cards[k] = FreshCard

\* The connection is settled: no fetch is awaited and the URL field holds
\* the URL in use.
connectionSettled == inflight = <<>> /\ tempServerUrl = localServerUrl

\* The whole client on a first visit with a stored URL, used one feature at
\* a time: the dialogs are opened and closed by hand while no fetch is
\* awaited, over a grid that is not being searched and has at most one pin;
\* behind them, with the connection settled, the grid
\* is searched, or its pins are toggled and dragged, or an app is launched.
\* Fetches and launches complete whenever they do.
ClientNext ==
    \/ Mount
    \/ FetchComplete
    \/ LaunchResult
    \/ StatusReset
    \/ cardsIdle /\ searchQuery = <<>> /\ Len(pinnedApps) <= 1 /\ inflight = <<>>
          /\ SetIsSettingsOpen
    \/ SetIsQRScannerOpen
    \/ SetTempServerUrl
    \/ HandleSaveSettings
    \/ HandleTestConnection
    \/ HandleDisconnect
    \/ OnScan
    \/ gridReachable /\ connectionSettled /\ cardsIdle /\ pinnedApps = <<>>
          /\ SetSearchQuery
    \/ gridReachable /\ connectionSettled /\ cardsIdle /\ searchQuery = <<>>
          /\ TogglePin
    \/ gridReachable /\ connectionSettled /\ cardsIdle /\ searchQuery = <<>>
          /\ OnDragEnd
    \/ gridReachable /\ connectionSettled /\ cardsIdle /\ searchQuery = <<>>
          /\ pinnedApps = <<>> /\ SubmitLaunch
SpecClient == LaunchInit /\ [][ClientNext]_vars

----------------------------------------------------------------------------
(* Properties                                                              *)

Range(seq) == {seq[i] : i \in 1..Len(seq)}

\* x and y are the same string up to the case of their letters.
SameIgnoringCase(x, y) ==
    Len(x) = Len(y) /\ \A k \in 1..Len(x) : LowerUnit(x[k]) = LowerUnit(y[k])

\* q occurs in name as a substring when case is ignored.
ContainsIgnoringCase(name, q) ==
    \E i \in 1..(Len(name) - Len(q) + 1) :
        SameIgnoringCase(SubSeq(name, i, i + Len(q) - 1), q)

IsInvalidInputMessage(m)    == startsWith(m, <<"Invalid input: ">>)
IsCouldNotConnectMessage(m) == startsWith(m, <<"Could not connect to your PC.">>)

\* C1: launchApp called with an empty app name or with a server URL that is
\* not a well-formed URL (the empty URL included) returns success = false
\* with a message starting 'Invalid input' and calls fetch not once.
C1_InvalidInputRejected ==
    (call.fn = "launchApp" /\ (call.appName = <<>> \/ ~URLParse(call.url).ok))
    => /\ pc = "done"
       /\ fetchLog = <<>>
       /\ ret.success = Bool(FALSE)
       /\ IsInvalidInputMessage(ret.message)

\* A disconnected client (empty URL) launching a named app was rejected.
C1_Witness ==
    /\ pc = "done" /\ call.fn = "launchApp"
    /\ call.appName # <<>> /\ call.url = <<>>
    /\ IsInvalidInputMessage(ret.message)

\* C2: every action makes exactly one network attempt: a resolved launchApp
\* with valid input has called fetch exactly once, with POST, whatever the
\* outcome; a resolved getAppsFromPC or testConnection with a non-empty URL
\* has called fetch exactly once, with GET; no call ever fetches twice.
C2_ExactlyOneAttempt ==
    /\ Len(fetchLog) <= 1
    /\ (pc = "done" /\ call.fn = "launchApp"
        /\ call.appName # <<>> /\ URLParse(call.url).ok)
       => fetchLog = <<Request("POST", call.url)>>
    /\ (pc = "done" /\ call.fn \in {"getAppsFromPC", "testConnection"}
        /\ call.url # <<>>)
       => fetchLog = <<Request("GET", AppsEndpoint(call.url))>>

\* A launch whose only fetch was rejected by the network has resolved.
C2_Witness ==
    /\ pc = "done" /\ call.fn = "launchApp"
    /\ resp.kind = "throw" /\ Len(fetchLog) = 1

\* The launcher service reported a failure together with a message: a 2xx
\* body {success: false, message} or a non-2xx response with a JSON message.
ServerReportedFailure(r) ==
    /\ r.kind = "response" /\ r.isJson /\ r.body.t = "object"
    /\ r.body.message.t = "string" /\ r.body.message.v # <<>>
    /\ (r.ok => r.body.success = Bool(FALSE))

\* C3: when the launcher service reports a failure with a message, launchApp
\* returns success = false and its message is the message of the server's
\* payload, for a 2xx body as for a non-2xx response.
C3_ServerMessageShown ==
    (pc = "done" /\ call.fn = "launchApp" /\ ServerReportedFailure(resp))
    => /\ ret.success = Bool(FALSE)
       /\ ret.message = resp.body.message.v

\* C4: launchApp answers a fetch that fails at the network level with
\* success = false and the 'Could not connect to your PC' message, and gives
\* that message for no failure reported by a server that was reached.
C4_CouldNotConnectOnlyForNetwork ==
    (pc = "done" /\ call.fn = "launchApp" /\ fetchLog # <<>>)
    => /\ (resp.kind = "throw"
           => ret.success = Bool(FALSE) /\ IsCouldNotConnectMessage(ret.message))
       /\ (IsCouldNotConnectMessage(ret.message) => resp.kind = "throw")

\* C5: testConnection(url) returns true exactly when the GET of <url>/apps
\* completes with a 2xx status; it returns false for a non-2xx status, for a
\* network error and for the empty URL, for which it calls fetch not once.
C5_TestConnection ==
    (pc = "done" /\ call.fn = "testConnection")
    => /\ ret = Bool(call.url # <<>> /\ resp.kind = "response" /\ resp.ok)
       /\ (call.url = <<>> => fetchLog = <<>>)
       /\ (call.url # <<>> => fetchLog = <<Request("GET", AppsEndpoint(call.url))>>)

\* A connection test answered with a 2xx status returned true.
C5_Witness ==
    /\ pc = "done" /\ call.fn = "testConnection"
    /\ resp.kind = "response" /\ resp.ok /\ ret = Bool(TRUE)

\* The fetchAndSetApps started by the step, if the step changed the server
\* URL to a non-empty value, is the last one in flight.
FetchStartedForNewUrl ==
    (localServerUrl' # localServerUrl /\ localServerUrl' # <<>>)
    => /\ Len(inflight') > Len(inflight)
       /\ inflight'[Len(inflight')] = localServerUrl'

\* C6: a step of handleDisconnect leaves no server URL in browser storage,
\* the in-memory server URL empty and the app list, fetched and displayed,
\* empty.
C6_DisconnectClears ==
    [][HandleDisconnect
       => /\ ~hasItem(localStorage', "localServerUrl")
          /\ localServerUrl' = <<>>
          /\ ~isConnected'
          /\ appsByGroup' = <<>>
          /\ allApps' = <<>>
          /\ displayedGroups' = <<>>]_vars

\* The client has just been disconnected.
C6_Witness ==
    /\ toast = "Disconnected"
    /\ localServerUrl = <<>> /\ appsByGroup = <<>>
    /\ ~hasItem(localStorage, "localServerUrl")

\* The text handleSaveSettings hands to the URL parser.
WithScheme(input) ==
    IF includes(input, <<":", "/", "/">>) THEN input ELSE U_http \o input

\* The port written in a URL's text, <<>> when none is written: what follows
\* the colon of the authority, the authority being what lies between the
\* scheme's "://" and the next "/".
WrittenPort(text) ==
    LET i         == FirstIndex(text, ":")
        rest      == SubSeq(text, i + 3, Len(text))
        authority == Before(rest, "/")
        colon     == FirstIndex(authority, ":")
    IN  IF colon = 0 THEN <<>> ELSE SubSeq(authority, colon + 1, Len(authority))

\* C7: a step of handleSaveSettings on an input that is empty or cannot be
\* parsed as a URL changes neither the stored nor the in-memory server URL
\* and starts no fetch; on any other input the saved URL is well-formed,
\* stored and in memory alike, has the http scheme when the input named no
\* scheme, and carries the port that was typed, or 8000 when none was typed.
C7_SaveValidates ==
    [][HandleSaveSettings
       => IF tempServerUrl = <<>> \/ ~URLParse(WithScheme(tempServerUrl)).ok
          THEN UNCHANGED <<localStorage, localServerUrl, inflight>>
          ELSE /\ URLParse(localServerUrl').ok
               /\ getItem(localStorage', "localServerUrl") = localServerUrl'
               /\ (~includes(tempServerUrl, <<":", "/", "/">>)
                   => URLParse(localServerUrl').scheme = <<"http">>)
               /\ WrittenPort(localServerUrl')
                    = IF WrittenPort(WithScheme(tempServerUrl)) # <<>>
                      THEN WrittenPort(WithScheme(tempServerUrl))
                      ELSE <<"8000">>]_vars

\* C8: a step that changes the server URL to a non-empty value starts a
\* fetch of the app list from it; when a fetch from a non-empty URL comes
\* back empty or failed the client raises the 'Could not fetch apps' toast
\* and its app list becomes empty; when the fetch for the empty URL returns
\* the list is cleared and no toast is raised.
C8_FetchOnConnect ==
    [][/\ FetchStartedForNewUrl
       /\ \A i \in 1..Len(inflight) : \A fetched \in getAppsOutcomes(inflight[i]) :
            (mounted /\ keysCount(fetched) = 0 /\ FetchCompleteWith(i, fetched))
            => /\ appsByGroup' = <<>>
               /\ allApps' = <<>>
               /\ ~isLoading'
               /\ IF inflight[i] # <<>>
                  THEN toast' = "Could not fetch apps"
                  ELSE toast' = toast]_vars

\* A fetch from a saved server came back empty or failed: the error is up
\* and nothing is listed.
C8_Witness ==
    /\ toast = "Could not fetch apps"
    /\ localServerUrl # <<>> /\ inflight = <<>>
    /\ appsByGroup = <<>> /\ ~isLoading

C10_FilterFallback ==
    (pc = "done" /\ call.fn = "filterAppsAction")
    => /\ ret.t = "array"
       /\ (call.query = <<>> => ret = Arr(call.apps) /\ aiCalls = 0)
       /\ (call.query # <<>> /\ resp.kind = "throw")
          => /\ aiCalls = 1
             /\ ret = Arr(SelectSeq(call.apps,
                          LAMBDA name : ContainsIgnoringCase(name, call.query)))

\* The AI threw and the fallback kept one of two apps, matched by a query
\* that differs from the name in case.
C10_Witness ==
    /\ pc = "done" /\ call.fn = "filterAppsAction" /\ resp.kind = "throw"
    /\ Len(call.apps) = 2 /\ Len(ret.v) = 1
    /\ ~includes(ret.v[1], call.query)

\* C11: every filterAppsAction call with a non-empty query eventually
\* returns a result, also when the AI call never answers, in which case the
\* result is the substring-filtered list.
C11_FilterEventuallyReturns ==
    (call.fn = "filterAppsAction" /\ call.query # <<>>)
    ~> (/\ pc = "done" /\ call.fn = "filterAppsAction"
        /\ (resp.kind \in {"none", "throw"}
            => ret = Arr(SelectSeq(call.apps,
                         LAMBDA name : ContainsIgnoringCase(name, call.query)))))

\* The lists of cards on screen: the search results, or the groups of the
\* grouped view, each a list; none while the skeletons are shown.
DisplayedLists ==
    IF isLoading THEN {}
    ELSE IF searchResults.shown THEN {searchResults.apps}
    ELSE {displayedGroups[g].apps : g \in 1..Len(displayedGroups)}

\* The cards on screen in reading order.
DisplayedOrder ==
    IF isLoading THEN <<>>
    ELSE IF searchResults.shown THEN searchResults.apps
    ELSE flatApps(displayedGroups)

IsPinned(app) == \E k \in 1..Len(pinnedApps) : pinnedApps[k] = app.name
PinnedPosition(app) == CHOOSE k \in 1..Len(pinnedApps) : pinnedApps[k] = app.name

\* C12: in the displayed order every pinned app comes before every unpinned
\* app; in every displayed list the pinned apps stand in the order of the
\* pinned list and the unpinned apps in alphabetical order of their names.
C12_DisplayedOrder ==
    /\ \A i, j \in 1..Len(DisplayedOrder) :
          (i < j /\ IsPinned(DisplayedOrder[j])) => IsPinned(DisplayedOrder[i])
    /\ \A list \in DisplayedLists : \A i, j \in 1..Len(list) :
          i < j =>
            /\ (IsPinned(list[i]) /\ IsPinned(list[j]))
               => PinnedPosition(list[i]) < PinnedPosition(list[j])
            /\ (~IsPinned(list[i]) /\ ~IsPinned(list[j]))
               => localeCompare(list[i].name, list[j].name) <= 0

Without(list, name) == SelectSeq(list, LAMBDA entry : entry # name)

\* C13 as stated: pin/unpin is idempotent, so that the button of a card
\* pressed a second time changes nothing more: pinning a pinned name and
\* unpinning a name that is not pinned leave the pinned list as it is.
C13_PinUnpinIdempotent ==
    \A name \in cardsShown :
        toggled(toggled(pinnedApps, name), name) = toggled(pinnedApps, name)

\* C13, amended: the pin button is a toggle. A step of togglePin for a name
\* that is not pinned appends it to the pinned list; for a pinned name it
\* removes the name and keeps the order of the other entries; either way the
\* same button pressed again restores the set of pinned names, and the list
\* itself when the name was not pinned before.
C13_PinIsToggle ==
    [][\A name \in cardsShown :
         (mounted /\ TogglePinOf(name))
         => /\ listIncludes(pinnedApps', name) # listIncludes(pinnedApps, name)
            /\ Without(pinnedApps', name) = Without(pinnedApps, name)
            /\ ~listIncludes(pinnedApps, name) => pinnedApps' = Append(pinnedApps, name)
            /\ Range(toggled(pinnedApps', name)) = Range(pinnedApps)
            /\ ~listIncludes(pinnedApps, name)
               => toggled(pinnedApps', name) = pinnedApps]_vars

\* 'A b' was unpinned and pinned again: the set of pinned names is the one
\* loaded from storage, their order is not.
C13_Witness ==
    /\ mounted /\ pinnedApps = <<N_b, N_Ab>>
    /\ getItem(localStorage, "pinnedApps") = JSONStringify(<<N_b, N_Ab>>)

\* Two pinned lists with the same names in the same places, and entries
\* that are no names in the same places.
SamePinnedNames(p, q) ==
    /\ Len(p) = Len(q)
    /\ \A i \in 1..Len(p) :
          /\ IsName(p[i]) <=> IsName(q[i])
          /\ IsName(p[i]) => p[i] = q[i]

Occurrences(list, entry) == Cardinality({i \in 1..Len(list) : list[i] = entry})

NoEntryTwice(list) == \A i \in 1..Len(list) : Occurrences(list, list[i]) = 1

IsPermutation(p, q) ==
    /\ Len(p) = Len(q)
    /\ \A i \in 1..Len(p) : Occurrences(p, p[i]) = Occurrences(q, p[i])

\* C20: the pinned list is an ordered set: no step puts an entry into it a
\* second time, and a drag in the group 'Pinned' changes only the order of
\* the list: the list after the drag is a permutation of the list before.
C20_PinnedOrderedSet ==
    [][/\ NoEntryTwice(pinnedApps) => NoEntryTwice(pinnedApps')
       /\ \A i \in 1..Len(pinnedGroupShown) : \A j \in 0..Len(pinnedGroupShown) :
            (mounted /\ ~isLoading /\ ~searchResults.shown /\ OnDragEndAt(i, j))
            => IsPermutation(pinnedApps', pinnedApps)]_vars

BeginsWithHttp(text) ==
    \/ startsWith(text, <<"http", ":", "/", "/">>)
    \/ startsWith(text, <<"https", ":", "/", "/">>)

\* C16: a step of onScan with a payload that begins with http:// or
\* https:// makes the payload, as scanned, the stored and the in-memory
\* server URL and closes the scanner and the settings dialog; with any other
\* payload it leaves the stored and the in-memory server URL as they are,
\* closes the scanner and raises the 'Invalid QR Code' toast.
C16_ScanSetsUrlAsScanned ==
    [][\A payload \in QrPayloads :
         (mounted /\ isQRScannerOpen /\ OnScanOf(payload))
         => IF BeginsWithHttp(payload)
            THEN /\ localServerUrl' = payload
                 /\ hasItem(localStorage', "localServerUrl")
                 /\ getItem(localStorage', "localServerUrl") = payload
                 /\ ~isQRScannerOpen' /\ ~isSettingsOpen'
            ELSE /\ UNCHANGED <<localServerUrl, localStorage>>
                 /\ ~isQRScannerOpen'
                 /\ toast' = "Invalid QR Code"]_vars

\* The scanned text 'http://', which names no host, is the server URL as it
\* was scanned, and both dialogs are closed.
C16_Witness ==
    /\ localServerUrl = U_http
    /\ getItem(localStorage, "localServerUrl") = localServerUrl
    /\ toast = "Connected!" /\ ~isQRScannerOpen /\ ~isSettingsOpen

\* The launches in flight that card k submitted and still awaits.
AwaitedBy(k) == {n \in 1..Len(launches) : launches[n].live /\ launches[n].card = k}

\* C15 as stated: while a launch of an app is in flight, the card that
\* submitted it still takes a tap, so that the same app can be launched
\* again.
C15_OverlapNotPrevented ==
    \A k \in DOMAIN cards : AwaitedBy(k) # {} => ~disabled(cards[k])

\* C15: a card has at most one launch in flight, and while it awaits that
\* launch, and after the result until its status is idle again, its launch
\* button is disabled; launches of cards no longer mounted are not counted
\* against the card now shown for the same app.
C15_OneLaunchPerCard ==
    \A k \in DOMAIN cards :
        /\ Cardinality(AwaitedBy(k)) <= 1
        /\ AwaitedBy(k) # {} => cards[k].pending
        /\ (cards[k].pending \/ cards[k].status # "idle") => disabled(cards[k])
        /\ cards[k].pending => AwaitedBy(k) # {}

\* Two launches of the same app are in flight together: one of a card that
\* has been unmounted since, one of the card now on screen for the app.
C15_Witness ==
    \E m, n \in 1..Len(launches) :
        /\ m # n
        /\ launches[m].card[2] = launches[n].card[2]
        /\ ~launches[m].live /\ launches[n].live
        /\ cards[launches[n].card].pending

\* C17: a POST naming an app that is not in the launcher service's
\* configuration is answered with failure and a non-empty message, and the
\* service spawns nothing for it.
C17_UnknownAppNotSpawned ==
    \A n \in 1..Len(serviceLog) :
        serviceLog[n].app \notin ConfiguredApps
        => /\ ~serviceLog[n].success
           /\ serviceLog[n].message # <<>>
           /\ serviceLog[n].spawns = 0

\* The service has answered a POST for 'Chrome', which it does not list, and
\* launchApp has returned a failure.
C17_Witness ==
    /\ pc = "done" /\ call.fn = "launchApp"
    /\ call.appName = <<"Ch", "rome">>
    /\ serviceLog # <<>>
    /\ serviceLog[Len(serviceLog)].app = <<"Ch", "rome">>
    /\ ret.success = Bool(FALSE)

\* C18 as stated: every POST naming a configured app is answered with
\* success and spawns its command exactly once.
C18_ConfiguredAlwaysSucceeds ==
    \A n \in 1..Len(serviceLog) :
        serviceLog[n].app \in ConfiguredApps
        => serviceLog[n].success /\ serviceLog[n].spawns = 1

\* C18: every POST naming a configured app spawns its command exactly once
\* and is answered with success, or with failure and a message when the
\* spawn raised; a launchApp call that passed validation has sent exactly
\* one POST, and one that did not has sent none.
C18_OneSpawnPerPost ==
    /\ \A n \in 1..Len(serviceLog) :
          serviceLog[n].app \in ConfiguredApps
          => /\ serviceLog[n].spawns = 1
             /\ serviceLog[n].success = ~serviceLog[n].raised
             /\ serviceLog[n].message # <<>>
    /\ (call.fn = "launchApp" /\ pc \in {"awaitFetch", "done"})
       => Len(fetchLog) = (IF launchAppSchema(call.appName, call.url) = <<>>
                           THEN 1 ELSE 0)

\* Two POSTs for 'VS Code' have been handled, one spawn each; the spawn of
\* the second raised and it was answered with failure.
C18_Witness ==
    /\ Len(serviceLog) = 2
    /\ \A n \in 1..2 : serviceLog[n].app = <<"VS", " ", "Code">>
                       /\ serviceLog[n].spawns = 1
    /\ serviceLog[1].success /\ ~serviceLog[2].success

\* The server URL and the pinned list as localStorage holds them.
UrlStored(store)  == <<hasItem(store, "localServerUrl"), getItem(store, "localServerUrl")>>
PinsStored(store) == <<hasItem(store, "pinnedApps"), getItem(store, "pinnedApps")>>

\* C19: a pin toggle, a drag, a change of the search text, a connection
\* test, a completed app-list fetch and a completed launch leave the stored
\* and the in-memory server URL as they are; save, QR scan and disconnect
\* leave the pinned list, stored and in memory, as it is; and a step that
\* changes the server URL is one of save, QR scan and disconnect, or the
\* mount effect adopting the stored URL without changing what is stored.
C19_UrlFrame ==
    [][LET urlChanged ==
               \/ localServerUrl' # localServerUrl
               \/ UrlStored(localStorage') # UrlStored(localStorage)
           pinsChanged ==
               \/ pinnedApps' # pinnedApps
               \/ PinsStored(localStorage') # PinsStored(localStorage)
       IN  /\ urlChanged
              => ~(TogglePin \/ OnDragEnd \/ SetSearchQuery \/ HandleTestConnection
                      \/ FetchComplete \/ LaunchResult)
           /\ pinsChanged
              => ~(HandleSaveSettings \/ OnScan \/ HandleDisconnect)
           /\ UrlStored(localStorage') # UrlStored(localStorage)
              => (HandleSaveSettings \/ OnScan \/ HandleDisconnect)
           /\ localServerUrl' # localServerUrl
              => \/ HandleSaveSettings \/ OnScan \/ HandleDisconnect
                 \/ Mount /\ localServerUrl' = getItem(localStorage, "localServerUrl")]_vars

\* The client has been disconnected with an app pinned: the URL is gone from
\* memory and storage, the pin is in both.
C19_Witness ==
    /\ toast = "Disconnected"
    /\ localServerUrl = <<>> /\ ~hasItem(localStorage, "localServerUrl")
    /\ pinnedApps # <<>>
    /\ getItem(localStorage, "pinnedApps") = JSONStringify(pinnedApps)

\* A settled fetch that is one of the failures: a network error, a non-2xx
\* status, a 2xx body that is not JSON, a 2xx body that is JSON null.
FetchHasFailed(r) ==
    \/ r.kind = "throw"
    \/ r.kind = "response" /\ (~r.ok \/ ~r.isJson \/ r.body.t = "null")

\* C21: a server action that has finished has resolved to a value, never
\* rejected: launchApp to a FormState, getAppsFromPC to the empty list when
\* its fetch failed, testConnection to false when its fetch was rejected or
\* answered non-2xx, filterAppsAction to the substring-filtered list when the
\* flow rejected or gave no output object.
C21_NoFailureIsFatal ==
    pc = "done"
    => /\ ret.t # "uncaught"
       /\ call.fn = "launchApp" => ret.t = "FormState"
       /\ (call.fn = "getAppsFromPC" /\ FetchHasFailed(resp)) => ret = Arr(<<>>)
       /\ (call.fn = "testConnection" /\ (resp.kind = "throw" \/ ~resp.ok))
          => ret = Bool(FALSE)
       /\ (call.fn = "filterAppsAction" /\ call.query # <<>>
              /\ (resp.kind = "throw" \/ resp.body.t # "object"))
          => ret = Arr(substringFilter(call.query, call.apps))

\* launchApp met a 2xx answer whose body is JSON null, where reading
\* data.success throws, and resolved to a failure FormState.
C21_Witness ==
    /\ pc = "done" /\ call.fn = "launchApp"
    /\ resp.kind = "response" /\ resp.ok /\ resp.isJson /\ resp.body.t = "null"
    /\ ret.t = "FormState" /\ ret.success = Bool(FALSE)

\* C22: the icon of every app on screen is the icon that an app with the
\* same name and the same icon tag is given in any list the server may send,
\* whatever its position there and whatever else that list holds.
C22_IconOrderIndependent ==
    \A c, d \in ServerConfigs :
        appsByGroup = processApps(c)
        => \A i \in 1..Len(flatApps(c)) : \A j \in 1..Len(flatApps(d)) :
              flatApps(c)[i] = flatApps(d)[j]
              => allApps[i].icon = flatApps(processApps(d))[j].icon


\* The lists fetchAndSetApps may leave on screen for a call made with url.
ResultsFor(url) ==
    { IF fetched.t = "groups" /\ keysCount(fetched) > 0
      THEN processApps(fetched.v) ELSE <<>> : fetched \in getAppsOutcomes(url) }

\* C23: once no app-list fetch is in flight, the list on screen is a result
\* of fetching from the current server URL; with no URL set it is empty, so a
\* fetch begun for an earlier URL has not repopulated or overwritten it.
C23_ListReflectsCurrentUrl ==
    mounted /\ inflight = <<>> => appsByGroup \in ResultsFor(localServerUrl)


\* The names on the cards of a group, in the order shown (610-619).
namesOf(apps) == [k \in 1..Len(apps) |-> apps[k].name]

\* The cards of the group 'Pinned' for a fetched list and a pinned list.
pinnedGroupOf(byGroup, pinned) ==
    LET shown == displayedGroupsOf(byGroup, pinned)
    IN  IF shown # <<>> /\ shown[1].group = <<"Pinned">> THEN shown[1].apps ELSE <<>>

\* C24: dropping the card at position i of the group 'Pinned' on position j
\* of that group leaves the group showing its previous order with that card
\* moved to position j, also when names that are not among the fetched apps
\* are pinned; a drop with no destination changes neither the pinned list
\* nor what is stored.
C24_DragMovesDraggedApp ==
    [][(mounted /\ ~isLoading /\ ~searchResults.shown)
       => \A i \in 1..Len(pinnedGroupShown) : \A j \in 0..Len(pinnedGroupShown) :
             (/\ listIncludes(pinnedApps, pinnedGroupShown[i].name)
              /\ OnDragEndAt(i, j))
             => IF j = 0
                THEN pinnedApps' = pinnedApps /\ localStorage' = localStorage
                ELSE namesOf(pinnedGroupOf(appsByGroup', pinnedApps'))
                        = reordered(namesOf(pinnedGroupShown), i, j)]_vars


\* The apps of a fetched group that are not pinned (343).
unpinnedOf(group) ==
    SelectSeq(group.apps, LAMBDA app : ~listIncludes(pinnedApps, app.name))

\* C25: in the grouped view every fetched app is on exactly one card; the
\* group 'Pinned' holds the pinned names that were fetched, in pinned order,
\* and nothing else; every group of the server that has unpinned apps is
\* shown with exactly those apps, whatever the server calls its groups.
C25_GroupsPartitionApps ==
    LET fetchedNames == namesOf(flatApps(appsByGroup))
        shownNames == namesOf(flatApps(displayedGroups))
    IN  /\ \A i \in 1..Len(fetchedNames) :
              Cardinality({k \in 1..Len(shownNames) : shownNames[k] = fetchedNames[i]}) = 1
        /\ namesOf(pinnedGroupShown)
              = SelectSeq(pinnedApps, LAMBDA name : listIncludes(fetchedNames, name))
        /\ \A g \in 1..Len(appsByGroup) :
              unpinnedOf(appsByGroup[g]) # <<>>
              => \E d \in 1..Len(displayedGroups) :
                    /\ displayedGroups[d].group = appsByGroup[g].group
                    /\ Range(namesOf(displayedGroups[d].apps))
                          = Range(namesOf(unpinnedOf(appsByGroup[g])))


\* C26: launchApp never resolves to success false together with the default
\* text '<app> launched successfully.', whatever body a 2xx answer carries.
C26_NoFailureWithSuccessText ==
    (pc = "done" /\ call.fn = "launchApp" /\ ret.t = "FormState"
        /\ ret.success = Bool(FALSE))
    => ret.message # LaunchedSuccessfully(call.appName)

\* C27: every name filterAppsAction resolves to is one of the names it was
\* called with, whether the flow answered or rejected.
C27_FilterResultIsSubset ==
    (pc = "done" /\ call.fn = "filterAppsAction" /\ ret.t = "array")
    => Range(ret.v) \subseteq Range(call.apps)


\* The steps of the feedback cycle of one card: tapped, answered, reset.
CardStep(before, after) ==
    \/ after = before
    \/ before = [pending |-> FALSE, status |-> "idle"]
          /\ after = [pending |-> TRUE, status |-> "idle"]
    \/ before = [pending |-> TRUE, status |-> "idle"]
          /\ ~after.pending /\ after.status \in {"success", "error"}
    \/ ~before.pending /\ before.status \in {"success", "error"}
          /\ after = [pending |-> FALSE, status |-> "idle"]

\* The feedback of every card that stays mounted follows the cycle, a
\* result sets the status its success flag selects, and a tap is taken only
\* by a card that is idle and not pending.
C28_CycleSteps ==
    /\ \A k \in DOMAIN cards \cap DOMAIN cards' : CardStep(cards[k], cards'[k])
    /\ \A n \in 1..Len(launches) : \A isSuccess \in BOOLEAN :
          (launches[n].live /\ LaunchResultOf(n, isSuccess))
          => cards'[launches[n].card].status
                = (IF isSuccess THEN "success" ELSE "error")
    /\ \A k \in DOMAIN cards :
          SubmitLaunchOf(k) => cards[k] = [pending |-> FALSE, status |-> "idle"]

\* C28: the launch feedback of a card is the cycle idle, pending, success or
\* error, idle; the result's success flag selects the status; the button
\* takes no tap while pending or while the status is not idle; and a card
\* showing success or error is idle again (or gone from the screen) later
\* on, so its button does not stay disabled once the result has arrived.
C28_LaunchFeedbackCycle ==
    /\ [][C28_CycleSteps]_vars
    /\ \A k \in AllCardKeys :
          (k \in DOMAIN cards /\ cards[k].status # "idle")
          ~> (k \notin DOMAIN cards \/ cards[k].status = "idle")

\* A card is showing the result of its launch, no longer pending.
C28_Witness ==
    \E k \in DOMAIN cards :
        ~cards[k].pending /\ cards[k].status = "error" /\ launches = <<>>


\* C29: the loading indicator is off only when no app-list fetch is in
\* flight: a fetch that finishes while another is still awaited leaves it on.
C29_LoadingAccurate ==
    (mounted /\ ~isLoading) => inflight = <<>>


\* The stored item 'pinnedApps' as the load effect reads it, '' when absent
\* or empty.
storedPins == getItem(localStorage, "pinnedApps")

\* The statement about start-up with the empty string counted among the
\* values that are not valid JSON: every such value is removed.
C30_EveryInvalidValueRemoved ==
    [][Mount =>
         /\ (hasItem(localStorage, "pinnedApps")
                /\ storedPins \in StoredInvalid \cup {EmptyString})
            => (~hasItem(localStorage', "pinnedApps") /\ pinnedApps' = <<>>)
         /\ storedPins \in StoredNonArrays
            => (localStorage' = localStorage /\ pinnedApps' = <<>>)
         /\ \A list \in StoredArrays :
               storedPins = JSONStringify(list) => pinnedApps' = list
         /\ localServerUrl' = getItem(localStorage, "localServerUrl")]_vars

\* C30: at start-up a stored 'pinnedApps' that is not empty and not valid
\* JSON is removed and nothing is pinned; one that is absent, empty, or valid
\* JSON but no array is left as it is and nothing is pinned; one that is a
\* JSON array is adopted as the pinned list and left as it is; the stored
\* server URL is adopted whatever the pin data is.
C30_LoadPinsSafe ==
    [][Mount =>
         /\ storedPins \in StoredInvalid
            => (~hasItem(localStorage', "pinnedApps") /\ pinnedApps' = <<>>)
         /\ storedPins \in StoredNonArrays \cup {EmptyString}
            => (localStorage' = localStorage /\ pinnedApps' = <<>>)
         /\ \A list \in StoredArrays :
               storedPins = JSONStringify(list)
               => (localStorage' = localStorage /\ pinnedApps' = list)
         /\ localServerUrl' = getItem(localStorage, "localServerUrl")
         /\ tempServerUrl' = getItem(localStorage, "localServerUrl")]_vars

\* The page has started over a stored value that is JSON but no array: the
\* value is still stored, nothing is pinned, the stored URL is in use.
C30_Witness ==
    /\ mounted
    /\ storedPins \in StoredNonArrays
    /\ pinnedApps = <<>>
    /\ localServerUrl = U_pc8000

=============================================================================
